---- MODULE Spec2Model ----
(***************************************************************************)
(* Pronunciation comparison engine of the Sanskrit voice bot:              *)
(* TextProcessor (src/utils/text_processor.py) and PronunciationAnalyzer   *)
(* (src/analysis/pronunciation_analyzer.py), with the copy of the          *)
(* full-shloka pipeline in StreamlitBackend.analyze_pronunciation.         *)
(* The session's WordPracticeTracker                                       *)
(* (src/tracking/word_practice_tracker.py) is the variable word_tracker.   *)
(* The LLMIntegratedFeedbackStrategy of the feedback generator             *)
(* (src/analysis/feedback_generator.py), with its CircuitBreaker and its   *)
(* cache, is the variable strategy; clock is the value of time.time().     *)
(*                                                                         *)
(* Representation.                                                         *)
(*  - A character is its Unicode code point; a string is a sequence of     *)
(*    code points; a token list is a sequence of strings.                  *)
(*  - A Python float that is a quotient of two small integers is kept as   *)
(*    the reduced fraction [num, den]: for the string lengths of this      *)
(*    model (combined length below 60) the IEEE quotient 2.0*M/T compares  *)
(*    with the literal 0.7 exactly as the fraction compares with 7/10.     *)
(*  - A percentage rounded to one decimal (round(x, 1)) is kept as the     *)
(*    integer number of tenths: 70.0 is 700.                               *)
(***************************************************************************)
EXTENDS Integers, Sequences, FiniteSets, TLC

VARIABLES op, args, ret, word_tracker, strategy, clock

vars == <<op, args, ret, word_tracker, strategy, clock>>

(***************************************************************************)
(* Bounds of the input sets.                                               *)
(***************************************************************************)
MaxLen == 2
MaxRep == 10
\* Words of the longest reference text: with this many words and one of
\* them wrong the percentage is 99.95 or more.
MaxWords == 2000

(***************************************************************************)
(* Arithmetic helpers.                                                     *)
(***************************************************************************)
Max(a, b) == IF a >= b THEN a ELSE b
Min(a, b) == IF a <= b THEN a ELSE b
Abs(x) == IF x < 0 THEN 0 - x ELSE x

\* The sequence f as an explicit tuple.  (Here and below, a bound variable
\* ranging over a one-element set, x \in {e}, names the value of e.)
AsTuple(f) == f \o <<>>

RECURSIVE Gcd(_, _)
Gcd(a, b) == IF b = 0 THEN a ELSE Gcd(b, a % b)

\* The float n/d (n >= 0, d > 0) as a reduced fraction.
Ratio(n, d) == LET g == Gcd(n, d) IN [num |-> n \div g, den |-> d \div g]

Zero == [num |-> 0, den |-> 1]
One == [num |-> 1, den |-> 1]

Gt(x, y) == x.num * y.den > y.num * x.den
Ge(x, y) == x.num * y.den >= y.num * x.den

\* round(n/d * 10) to the nearest integer, ties to even: the number of
\* tenths Python's round(n/d, 1) returns for a value n/d.
RoundHalfEven(n, d) ==
    LET q == n \div d
        r == n % d
    IN  IF 2 * r > d \/ (2 * r = d /\ q % 2 = 1) THEN q + 1 ELSE q

RoundTenths(n, d) == RoundHalfEven(10 * n, d)

(***************************************************************************)
(* Configuration (src/core/config.py, class AnalysisConfig).               *)
(***************************************************************************)
WORD_SIMILARITY_THRESHOLD == [num |-> 7, den |-> 10]

\* 70.0, in tenths of a percent.
PASSING_ACCURACY == 700

(***************************************************************************)
(* Characters.                                                             *)
(***************************************************************************)
\* str.isspace / the regex class \s on a Unicode string.
IsSpace(c) ==
    c \in ({9, 10, 11, 12, 13, 28, 29, 30, 31, 32, 133, 160, 5760, 8232, 8233,
            8239, 8287, 12288} \cup (8192 .. 8202))

\* U+0900 .. U+097F, which holds the two dandas U+0964 and U+0965.
IsDevanagari(c) == c >= 2304 /\ c <= 2431

\* str.lower on one character: the ASCII capitals map to their small
\* letters; Devanagari has no case.
LowerChar(c) == IF c >= 65 /\ c <= 90 THEN c + 32 ELSE c

Lower(s) == AsTuple([i \in 1 .. Len(s) |-> LowerChar(s[i])])

RECURSIVE LStrip(_)
LStrip(s) == IF s # <<>> /\ IsSpace(Head(s)) THEN LStrip(Tail(s)) ELSE s

RECURSIVE RStrip(_)
RStrip(s) ==
    IF s # <<>> /\ IsSpace(s[Len(s)]) THEN RStrip(SubSeq(s, 1, Len(s) - 1)) ELSE s

\* str.strip()
Strip(s) == RStrip(LStrip(s))

(***************************************************************************)
(* TextProcessor.smart_word_split                                          *)
(***************************************************************************)
\* Variant: only the ASCII punctuation and digits become blanks.
SubNonSanskrit_punctuation(text) ==
    AsTuple([i \in 1 .. Len(text) |-> IF text[i] \in 33 .. 64 THEN 32 ELSE text[i]])

\* re.sub: every character that is neither in U+0900..U+097F nor
\* whitespace becomes a blank.
SubNonSanskrit(text) ==
    AsTuple([i \in 1 .. Len(text) |->
                IF IsDevanagari(text[i]) \/ IsSpace(text[i]) THEN text[i] ELSE 32])

\* str.split(): the maximal runs of non-whitespace characters of
\* text[lo .. hi], in order.  The range is halved, and a run that crosses
\* the middle is put together again from the two halves.
RECURSIVE SplitRange(_, _, _)
SplitRange(text, lo, hi) ==
    IF lo > hi
    THEN <<>>
    ELSE IF lo = hi
         THEN IF IsSpace(text[lo]) THEN <<>> ELSE <<<<text[lo]>>>>
         ELSE LET mid == (lo + hi) \div 2
              IN  CHOOSE words \in
                      {IF IsSpace(text[mid]) \/ IsSpace(text[mid + 1])
                       THEN left \o right
                       ELSE SubSeq(left, 1, Len(left) - 1)
                                \o <<left[Len(left)] \o right[1]>>
                                \o Tail(right) :
                          left \in {SplitRange(text, lo, mid)},
                          right \in {SplitRange(text, mid + 1, hi)}} : TRUE

StrSplit(text) == CHOOSE words \in {SplitRange(t, 1, Len(t)) : t \in {text}} : TRUE

smart_word_split(text) ==
    IF text = <<>>
    THEN <<>>
    ELSE CHOOSE stripped \in
             {SelectSeq([i \in 1 .. Len(words) |-> Strip(words[i])],
                        LAMBDA w : w # <<>>) :
                 words \in {StrSplit(SubNonSanskrit(text))}} : TRUE

(***************************************************************************)
(* difflib.SequenceMatcher(None, a, b).ratio(), as called by               *)
(* TextProcessor.calculate_similarity.  No junk predicate; the autojunk    *)
(* heuristic only acts when b has 200 or more characters.                  *)
(***************************************************************************)
\* Length of the common run a[i..], b[j..] inside a[..ahi], b[..bhi].
RECURSIVE MatchLen(_, _, _, _, _, _)
MatchLen(a, b, i, j, ahi, bhi) ==
    IF i <= ahi /\ j <= bhi /\ a[i] = b[j]
    THEN 1 + MatchLen(a, b, i + 1, j + 1, ahi, bhi)
    ELSE 0

\* The common runs of a[alo..ahi] and b[blo..bhi], one per pair of start
\* positions.
Runs(a, b, alo, ahi, blo, bhi) ==
    {[i |-> p[1], j |-> p[2], size |-> MatchLen(a, b, p[1], p[2], ahi, bhi)] :
        p \in (alo .. ahi) \X (blo .. bhi)}

\* find_longest_match(alo, ahi, blo, bhi) on the inclusive 1-based ranges
\* a[alo..ahi], b[blo..bhi]: the longest block, of those the one starting
\* earliest in a, of those the one starting earliest in b; (alo, blo, 0)
\* when nothing matches.
LongestOf(runs, alo, blo) ==
    IF \A r \in runs : r.size = 0
    THEN [i |-> alo, j |-> blo, size |-> 0]
    ELSE CHOOSE m \in runs :
             \A r \in runs :
                 \/ m.size > r.size
                 \/ m.size = r.size /\ m.i < r.i
                 \/ m.size = r.size /\ m.i = r.i /\ m.j <= r.j

FindLongestMatch(a, b, alo, ahi, blo, bhi) ==
    CHOOSE m \in {LongestOf(runs, alo, blo) :
                     runs \in {Runs(a, b, alo, ahi, blo, bhi)}} : TRUE

\* Variant: the longest match alone, without the pieces beside it.
MatchingCount_longest(a, b, alo, ahi, blo, bhi) ==
    IF alo > ahi \/ blo > bhi
    THEN 0
    ELSE FindLongestMatch(a, b, alo, ahi, blo, bhi).size

\* Total size of get_matching_blocks(): the longest match, then the same
\* on the pieces to its left and to its right.
RECURSIVE MatchingCount(_, _, _, _, _, _)
MatchingCount(a, b, alo, ahi, blo, bhi) ==
    IF alo > ahi \/ blo > bhi
    THEN 0
    ELSE CHOOSE n \in
             {IF m.size = 0
              THEN 0
              ELSE m.size
                   + MatchingCount(a, b, alo, m.i - 1, blo, m.j - 1)
                   + MatchingCount(a, b, m.i + m.size, ahi, m.j + m.size, bhi) :
                 m \in {FindLongestMatch(a, b, alo, ahi, blo, bhi)}} : TRUE

\* Variant: the matched length over the combined length, without the
\* factor 2.
SequenceMatcherRatio_unscaled(x, y) ==
    CHOOSE r \in
        {IF Len(a) + Len(b) = 0
         THEN One
         ELSE Ratio(MatchingCount(a, b, 1, Len(a), 1, Len(b)), Len(a) + Len(b)) :
            a \in {x}, b \in {y}} : TRUE

SequenceMatcherRatio(x, y) ==
    CHOOSE r \in
        {IF Len(a) + Len(b) = 0
         THEN One
         ELSE Ratio(2 * MatchingCount(a, b, 1, Len(a), 1, Len(b)), Len(a) + Len(b)) :
            a \in {x}, b \in {y}} : TRUE

(***************************************************************************)
(* TextProcessor.calculate_similarity                                      *)
(***************************************************************************)
calculate_similarity_unguarded(text1, text2) ==
    SequenceMatcherRatio(Lower(text1), Lower(text2))

calculate_similarity(text1, text2) ==
    IF text1 = <<>> \/ text2 = <<>>
    THEN Zero
    ELSE SequenceMatcherRatio(Lower(text1), Lower(text2))

(***************************************************************************)
(* TextProcessor.align_words                                               *)
(***************************************************************************)
\* The entry appended for the 0-based position i, given the two words and
\* their similarity.
WordResult(i, original_word, user_word, similarity, is_correct, word_data) ==
    [index |-> i,
     original |-> original_word,
     user |-> user_word,
     correct |-> is_correct,
     similarity |-> similarity,
     devanagari |-> IF word_data # <<>> THEN word_data[1].devanagari ELSE original_word,
     slp1 |-> IF word_data # <<>> THEN word_data[1].slp1 ELSE <<>>]

\* Variant: past the end of the list the last entry is used again.
WordData_last(shloka_words_data, i) ==
    IF shloka_words_data # <<>>
    THEN <<shloka_words_data[Min(i + 1, Len(shloka_words_data))]>>
    ELSE <<>>

\* word_data for position i: <<>> for None, <<entry>> otherwise.
WordData(shloka_words_data, i) ==
    IF shloka_words_data # <<>> /\ i < Len(shloka_words_data)
    THEN <<shloka_words_data[i + 1]>>
    ELSE <<>>

\* Similarity and correctness of one pair of words.
ScorePair(original_word, user_word) ==
    IF original_word # <<>> /\ user_word # <<>>
    THEN CHOOSE r \in
             {[similarity |-> sim,
               correct |-> Gt(sim, WORD_SIMILARITY_THRESHOLD)] :
                 sim \in {calculate_similarity(original_word, user_word)}} : TRUE
    ELSE [similarity |-> Zero, correct |-> FALSE]

\* Variant: the spoken word is looked up anywhere in the utterance before
\* falling back to the position.
AlignPosition_search(original_words, user_words, shloka_words_data, i) ==
    CHOOSE r \in
        {WordResult(i, original_word, user_word,
                    ScorePair(original_word, user_word).similarity,
                    ScorePair(original_word, user_word).correct,
                    WordData(shloka_words_data, i)) :
            original_word \in
                {IF i < Len(original_words) THEN original_words[i + 1] ELSE <<>>},
            user_word \in
                {IF \E j \in DOMAIN user_words :
                        i < Len(original_words) /\ user_words[j] = original_words[i + 1]
                 THEN original_words[i + 1]
                 ELSE IF i < Len(user_words) THEN user_words[i + 1] ELSE <<>>}} :
        TRUE

\* One pass of the loop of align_words, for the 0-based position i.
AlignPosition(original_words, user_words, shloka_words_data, i) ==
    CHOOSE r \in
        {WordResult(i, original_word, user_word,
                    ScorePair(original_word, user_word).similarity,
                    ScorePair(original_word, user_word).correct,
                    WordData(shloka_words_data, i)) :
            original_word \in
                {IF i < Len(original_words) THEN original_words[i + 1] ELSE <<>>},
            user_word \in {IF i < Len(user_words) THEN user_words[i + 1] ELSE <<>>}} :
        TRUE

\* Variant: only the positions both lists have.
align_words_shortest(original_words, user_words, shloka_words_data) ==
    LET min_length == IF Len(original_words) <= Len(user_words)
                      THEN Len(original_words)
                      ELSE Len(user_words)
    IN  AsTuple([p \in 1 .. min_length |->
                    AlignPosition(original_words, user_words, shloka_words_data, p - 1)])

align_words(original_words, user_words, shloka_words_data) ==
    LET max_length == Max(Len(original_words), Len(user_words))
    IN  AsTuple([p \in 1 .. max_length |->
                    AlignPosition(original_words, user_words, shloka_words_data, p - 1)])

(***************************************************************************)
(* TextProcessor.extract_incorrect_words                                   *)
(***************************************************************************)
NeedsPractice(result) == ~result.correct /\ result.original # <<>>

\* Variant: only the words the user attempted.
Attempted(result) == ~result.correct /\ result.original # <<>> /\ result.user # <<>>

extract_incorrect_words_attempted(word_results) == SelectSeq(word_results, Attempted)

\* Variant: every incorrect position, with or without a reference word.
Incorrect(result) == ~result.correct

extract_incorrect_words_any(word_results) == SelectSeq(word_results, Incorrect)

extract_incorrect_words(word_results) == SelectSeq(word_results, NeedsPractice)

(***************************************************************************)
(* TextProcessor.calculate_accuracy, in tenths of a percent                *)
(***************************************************************************)
HasOriginal(result) == result.original # <<>>

IsCorrect(result) == result.correct

\* Variant: every aligned position counts in the denominator.
calculate_accuracy_all_positions(word_results) ==
    IF word_results = <<>>
    THEN 0
    ELSE LET correct_count ==
                 Len(SelectSeq(SelectSeq(word_results, HasOriginal), IsCorrect))
         IN  RoundTenths(100 * correct_count, Len(word_results))

\* Variant: the percentage is cut to one decimal instead of rounded.
calculate_accuracy_truncated(word_results) ==
    IF word_results = <<>>
    THEN 0
    ELSE LET original_words == SelectSeq(word_results, HasOriginal)
         IN  IF original_words = <<>>
             THEN 0
             ELSE LET correct_count == Len(SelectSeq(original_words, IsCorrect))
                  IN  (1000 * correct_count) \div Len(original_words)

calculate_accuracy(word_results) ==
    IF word_results = <<>>
    THEN 0
    ELSE LET original_words == SelectSeq(word_results, HasOriginal)
         IN  IF original_words = <<>>
             THEN 0
             ELSE LET correct_count == Len(SelectSeq(original_words, IsCorrect))
                  IN  RoundTenths(100 * correct_count, Len(original_words))

(***************************************************************************)
(* PronunciationAnalyzer._analyze_full_shloka                              *)
(***************************************************************************)
\* The metrics computed from the aligned list (lines 72-89; the same
\* statements stand in StreamlitBackend.analyze_pronunciation).
\* Variant: the pass mark itself does not pass.
FullShlokaMetrics_strict(user_transcription, original_words, user_words, word_results) ==
    LET accuracy == calculate_accuracy(word_results)
    IN  [accuracy |-> accuracy,
         correct_count |->
            Cardinality({i \in DOMAIN word_results :
                            word_results[i].correct
                            /\ word_results[i].original # <<>>}),
         total_count |->
            Cardinality({i \in DOMAIN word_results : word_results[i].original # <<>>}),
         word_results |-> word_results,
         incorrect_words |-> extract_incorrect_words(word_results),
         passed |-> accuracy > PASSING_ACCURACY,
         user_transcription |-> user_transcription,
         original_words |-> original_words,
         user_words |-> user_words,
         analysis_type |-> "full_shloka"]

\* Variant: every aligned position counts in total_count.
FullShlokaMetrics_aligned_total(user_transcription, original_words, user_words, word_results) ==
    LET accuracy == calculate_accuracy(word_results)
    IN  [accuracy |-> accuracy,
         correct_count |->
            Cardinality({i \in DOMAIN word_results :
                            word_results[i].correct
                            /\ word_results[i].original # <<>>}),
         total_count |-> Len(word_results),
         word_results |-> word_results,
         incorrect_words |-> extract_incorrect_words(word_results),
         passed |-> accuracy >= PASSING_ACCURACY,
         user_transcription |-> user_transcription,
         original_words |-> original_words,
         user_words |-> user_words,
         analysis_type |-> "full_shloka"]

FullShlokaMetrics(user_transcription, original_words, user_words, word_results) ==
    LET accuracy == calculate_accuracy(word_results)
        correct_count ==
            Cardinality({i \in DOMAIN word_results :
                            word_results[i].correct
                            /\ word_results[i].original # <<>>})
        total_count ==
            Cardinality({i \in DOMAIN word_results : word_results[i].original # <<>>})
        incorrect_words == extract_incorrect_words(word_results)
    IN  [accuracy |-> accuracy,
         correct_count |-> correct_count,
         total_count |-> total_count,
         word_results |-> word_results,
         incorrect_words |-> incorrect_words,
         passed |-> accuracy >= PASSING_ACCURACY,
         user_transcription |-> user_transcription,
         original_words |-> original_words,
         user_words |-> user_words,
         analysis_type |-> "full_shloka"]

\* original_shloka is [devanagari |-> text, words |-> metadata list].
analyze_full_shloka(user_transcription, original_shloka) ==
    CHOOSE result \in
        {CHOOSE r \in
             {FullShlokaMetrics(user_transcription, original_words, user_words,
                                word_results) :
                 word_results \in
                     {align_words(original_words, user_words, original_shloka.words)}} :
             TRUE :
            original_words \in {smart_word_split(original_shloka.devanagari)},
            user_words \in {smart_word_split(user_transcription)}} : TRUE

(***************************************************************************)
(* PronunciationAnalyzer._analyze_single_word                              *)
(***************************************************************************)
\* The value returned for None.
None == [analysis_type |-> "None"]

\* Variant: the word passes on the aggregate pass mark.
analyze_single_word_aggregate(user_transcription, practice_words, current_word_index) ==
    IF practice_words = <<>> \/ current_word_index >= Len(practice_words)
    THEN None
    ELSE CHOOSE result \in
             {LET current_word == practice_words[current_word_index + 1]
                  accuracy == RoundTenths(100 * similarity.num, similarity.den)
                  is_correct == accuracy >= PASSING_ACCURACY
                  word_result == [index |-> 0,
                                  original |-> original_word,
                                  user |-> user_word,
                                  correct |-> is_correct,
                                  similarity |-> similarity,
                                  devanagari |-> current_word.devanagari,
                                  slp1 |-> current_word.slp1]
              IN  [accuracy |-> accuracy,
                   correct_count |-> IF is_correct THEN 1 ELSE 0,
                   total_count |-> 1,
                   word_results |-> <<word_result>>,
                   incorrect_words |-> IF is_correct THEN <<>> ELSE <<word_result>>,
                   passed |-> is_correct,
                   user_transcription |-> user_transcription,
                   original_words |-> <<original_word>>,
                   user_words |-> <<user_word>>,
                   analysis_type |-> "single_word",
                   word_index |-> current_word_index,
                   total_practice_words |-> Len(practice_words)] :
                 original_word \in {practice_words[current_word_index + 1].devanagari},
                 user_word \in {Strip(user_transcription)},
                 similarity \in
                     {calculate_similarity(
                          practice_words[current_word_index + 1].devanagari,
                          Strip(user_transcription))}} : TRUE

analyze_single_word(user_transcription, practice_words, current_word_index) ==
    IF practice_words = <<>> \/ current_word_index >= Len(practice_words)
    THEN None
    ELSE CHOOSE result \in
             {LET current_word == practice_words[current_word_index + 1]
                  accuracy == RoundTenths(100 * similarity.num, similarity.den)
                  is_correct == Gt(similarity, WORD_SIMILARITY_THRESHOLD)
                  word_result == [index |-> 0,
                                  original |-> original_word,
                                  user |-> user_word,
                                  correct |-> is_correct,
                                  similarity |-> similarity,
                                  devanagari |-> current_word.devanagari,
                                  slp1 |-> current_word.slp1]
              IN  [accuracy |-> accuracy,
                   correct_count |-> IF is_correct THEN 1 ELSE 0,
                   total_count |-> 1,
                   word_results |-> <<word_result>>,
                   incorrect_words |-> IF is_correct THEN <<>> ELSE <<word_result>>,
                   passed |-> is_correct,
                   user_transcription |-> user_transcription,
                   original_words |-> <<original_word>>,
                   user_words |-> <<user_word>>,
                   analysis_type |-> "single_word",
                   word_index |-> current_word_index,
                   total_practice_words |-> Len(practice_words)] :
                 original_word \in {practice_words[current_word_index + 1].devanagari},
                 user_word \in {Strip(user_transcription)},
                 similarity \in
                     {calculate_similarity(
                          practice_words[current_word_index + 1].devanagari,
                          Strip(user_transcription))}} : TRUE

(***************************************************************************)
(* PronunciationAnalyzer.analyze_pronunciation                             *)
(***************************************************************************)
analyze_pronunciation(user_transcription, original_shloka, practice_mode, practice_words, current_word_index) ==
    IF practice_mode = "words" /\ practice_words # <<>>
    THEN analyze_single_word(user_transcription, practice_words, current_word_index)
    ELSE analyze_full_shloka(user_transcription, original_shloka)

(***************************************************************************)
(* PronunciationAnalyzer.compare_with_threshold                            *)
(***************************************************************************)
\* similarity - threshold as a reduced fraction with a signed numerator.
Difference(x, y) ==
    LET n == x.num * y.den - y.num * x.den
        d == x.den * y.den
        g == Gcd(IF n < 0 THEN -n ELSE n, d)
    IN  [num |-> n \div g, den |-> d \div g]

\* threshold is <<>> for None and <<t>> for a given value t.
compare_with_threshold(similarity, threshold) ==
    LET t == IF threshold = <<>> THEN WORD_SIMILARITY_THRESHOLD ELSE threshold[1]
    IN  [passed |-> Ge(similarity, t),
         similarity |-> similarity,
         threshold |-> t,
         difference |-> Difference(similarity, t)]

(***************************************************************************)
(* StreamlitBackend.analyze_pronunciation: both recordings are             *)
(* transcribed by the speech service, then compared.  The outcome of the   *)
(* two transcriptions is the input; the feedback text attached to a        *)
(* successful result is produced by the feedback generator and is not part *)
(* of the comparison.                                                      *)
(***************************************************************************)
\* user_result is the user's transcription result; original_result is the
\* [success, transcription] outcome of fetching and transcribing the
\* reference recording.
backend_analyze_pronunciation(user_result, original_result) ==
    IF ~user_result.success
    THEN [success |-> FALSE, analysis_type |-> "error"]
    ELSE IF ~original_result.success
    THEN [success |-> FALSE, analysis_type |-> "error"]
    ELSE CHOOSE result \in
             {LET m == CHOOSE r \in
                           {FullShlokaMetrics(user_transcription, original_words,
                                              user_words, word_results) :
                               word_results \in
                                   {align_words(original_words, user_words, <<>>)}} :
                           TRUE
              IN  [accuracy |-> m.accuracy,
                   correct_count |-> m.correct_count,
                   total_count |-> m.total_count,
                   word_results |-> m.word_results,
                   incorrect_words |-> m.incorrect_words,
                   passed |-> m.passed,
                   user_transcription |-> user_transcription,
                   original_transcription |-> original_transcription,
                   original_words |-> original_words,
                   user_words |-> user_words,
                   analysis_type |-> "full_shloka",
                   success |-> TRUE] :
                 user_transcription \in {Strip(user_result.transcription)},
                 original_transcription \in {Strip(original_result.transcription)},
                 original_words \in
                     {smart_word_split(Strip(original_result.transcription))},
                 user_words \in {smart_word_split(Strip(user_result.transcription))}} :
             TRUE

(***************************************************************************)
(* Word practice tracker (src/tracking/word_practice_tracker.py).          *)
(*                                                                         *)
(* Representation.                                                         *)
(*  - The dict word_attempts is a function whose domain is the set of      *)
(*    keys that have an entry.                                             *)
(*  - An accuracy is an integer-valued float, kept as that integer; sums   *)
(*    of such values are exact.                                            *)
(*  - time.time() is an opaque value: no operation reads a timestamp       *)
(*    (get_session_summary, which does, is not part of this model), so     *)
(*    every timestamp is the one value Now.                                *)
(***************************************************************************)
\* PracticeConfig (src/core/config.py).
MAX_ATTEMPTS_BEFORE_SUGGESTION == 5
DECREASING_ACCURACY_THRESHOLD == 5
MINIMUM_ATTEMPTS_FOR_SUGGESTION == 3

\* The literal 40 of should_suggest_alphabet_practice and
\* get_suggestion_message.
LOW_BEST_ACCURACY == 40

Now == 0

\* The empty dict {}.
EmptyDict == [k \in {} |-> 0]

\* WordPracticeTracker.__init__: the fields of a new tracker.
WordPracticeTracker ==
    [word_attempts |-> EmptyDict,
     session_start_time |-> Now,
     max_attempts_before_suggestion |-> MAX_ATTEMPTS_BEFORE_SUGGESTION,
     decreasing_accuracy_threshold |-> DECREASING_ACCURACY_THRESHOLD]

reset_tracker_keep(self) == [self EXCEPT !.session_start_time = Now]

\* reset_tracker.
reset_tracker(self) ==
    [self EXCEPT !.word_attempts = EmptyDict, !.session_start_time = Now]

\* Variant: a new entry starts from a last accuracy of 100.
NewWordData_from_full ==
    [attempts |-> <<>>,
     accuracies |-> <<>>,
     last_accuracy |-> 100,
     decreasing_streak |-> 0,
     best_accuracy |-> 0,
     transcriptions |-> <<>>]

\* The entry record_word_attempt creates for a key without one.
NewWordData ==
    [attempts |-> <<>>,
     accuracies |-> <<>>,
     last_accuracy |-> 0,
     decreasing_streak |-> 0,
     best_accuracy |-> 0,
     transcriptions |-> <<>>]

UpdateWordData_lenient(word_data, accuracy, user_transcription) ==
    [attempts |-> Append(word_data.attempts, Now),
     accuracies |-> Append(word_data.accuracies, accuracy),
     transcriptions |-> Append(word_data.transcriptions, user_transcription),
     decreasing_streak |->
         IF accuracy <= word_data.last_accuracy
         THEN word_data.decreasing_streak + 1
         ELSE 0,
     last_accuracy |-> accuracy,
     best_accuracy |-> Max(word_data.best_accuracy, accuracy)]

\* record_word_attempt, lines 57-69: the update of the key's entry.
UpdateWordData(word_data, accuracy, user_transcription) ==
    [attempts |-> Append(word_data.attempts, Now),
     accuracies |-> Append(word_data.accuracies, accuracy),
     transcriptions |-> Append(word_data.transcriptions, user_transcription),
     decreasing_streak |->
         IF accuracy < word_data.last_accuracy
         THEN word_data.decreasing_streak + 1
         ELSE 0,
     last_accuracy |-> accuracy,
     best_accuracy |-> Max(word_data.best_accuracy, accuracy)]

\* The dict d with d[key] = value.
SetItem(d, key, value) ==
    [k \in DOMAIN d \cup {key} |-> IF k = key THEN value ELSE d[k]]

record_word_attempt_shared(self, word_key, accuracy, user_transcription) ==
    LET d == self.word_attempts
        created == IF word_key \in DOMAIN d THEN d ELSE SetItem(d, word_key, NewWordData)
    IN  [self EXCEPT !.word_attempts =
            [k \in DOMAIN created |->
                UpdateWordData(created[k], accuracy, user_transcription)]]

\* record_word_attempt: the tracker after the call.
record_word_attempt(self, word_key, accuracy, user_transcription) ==
    LET d == self.word_attempts
        word_data == IF word_key \in DOMAIN d THEN d[word_key] ELSE NewWordData
    IN  [self EXCEPT !.word_attempts =
            SetItem(d, word_key,
                    UpdateWordData(word_data, accuracy, user_transcription))]

should_suggest_alphabet_practice_late(self, word_key) ==
    IF word_key \notin DOMAIN self.word_attempts
    THEN FALSE
    ELSE LET word_data == self.word_attempts[word_key]
             attempt_count == Len(word_data.attempts)
         IN  \/ attempt_count > self.max_attempts_before_suggestion
             \/ word_data.decreasing_streak >= self.decreasing_accuracy_threshold
             \/ /\ attempt_count >= MINIMUM_ATTEMPTS_FOR_SUGGESTION
                /\ word_data.best_accuracy < LOW_BEST_ACCURACY

\* Variant: the attempt rule holds at the limit only.
should_suggest_alphabet_practice_at_limit(self, word_key) ==
    IF word_key \notin DOMAIN self.word_attempts
    THEN FALSE
    ELSE LET word_data == self.word_attempts[word_key]
             attempt_count == Len(word_data.attempts)
         IN  \/ attempt_count = self.max_attempts_before_suggestion
             \/ word_data.decreasing_streak >= self.decreasing_accuracy_threshold
             \/ /\ attempt_count >= MINIMUM_ATTEMPTS_FOR_SUGGESTION
                /\ word_data.best_accuracy < LOW_BEST_ACCURACY

\* should_suggest_alphabet_practice.
should_suggest_alphabet_practice(self, word_key) ==
    IF word_key \notin DOMAIN self.word_attempts
    THEN FALSE
    ELSE LET word_data == self.word_attempts[word_key]
             attempt_count == Len(word_data.attempts)
         IN  \/ attempt_count >= self.max_attempts_before_suggestion
             \/ word_data.decreasing_streak >= self.decreasing_accuracy_threshold
             \/ /\ attempt_count >= MINIMUM_ATTEMPTS_FOR_SUGGESTION
                /\ word_data.best_accuracy < LOW_BEST_ACCURACY

\* get_suggestion_message: the message as its parts (the text chosen and
\* the values formatted into it; best is formatted with one decimal).
get_suggestion_message(self, word_key, word_text) ==
    IF word_key \notin DOMAIN self.word_attempts
    THEN <<"Let's practice the word step by step", word_text>>
    ELSE LET word_data == self.word_attempts[word_key]
             attempt_count == Len(word_data.attempts)
             best_accuracy == word_data.best_accuracy
             reason ==
                 IF attempt_count >= self.max_attempts_before_suggestion
                 THEN <<"After attempts", attempt_count, 10 * best_accuracy>>
                 ELSE IF word_data.decreasing_streak >=
                             self.decreasing_accuracy_threshold
                 THEN <<"Your accuracy has been decreasing",
                        word_data.decreasing_streak>>
                 ELSE IF best_accuracy < LOW_BEST_ACCURACY
                 THEN <<"This word seems challenging">>
                 ELSE <<>>
         IN  <<"You've been working hard on the word", word_text>> \o reason
                 \o <<"Options">>

(***************************************************************************)
(* The float arithmetic of the trend in get_word_statistics.               *)
(*                                                                         *)
(* The means are IEEE doubles (52 fraction bits, round to nearest, ties to *)
(* even).  A double of this computation is kept as the exact quotient      *)
(* num/den it approximates and its distance from it, err / (3 * 2^scale):  *)
(* err = 0 for a quotient that is a double itself (den 1, 2 or 4).  A      *)
(* third n/3 lies in the binade 2^e <= |n/3| < 2^(e+1), where doubles are  *)
(* the multiples of 2^-scale with scale = 52 - e, and the nearest one is   *)
(* (n * 2^scale - 1)/3 or (n * 2^scale + 1)/3 scaled back, whichever is an *)
(* integer.  The divisors of this model are 1 .. 4.                        *)
(***************************************************************************)
FRACTION_BITS == 52

Sign(x) == IF x > 0 THEN 1 ELSE IF x < 0 THEN -1 ELSE 0

RECURSIVE Pow2(_)
Pow2(k) == IF k = 0 THEN 1 ELSE 2 * Pow2(k - 1)

\* The largest e with 2^e <= n/d, for n, d > 0.
RECURSIVE FloorLog2(_, _)
FloorLog2(n, d) ==
    IF n >= 2 * d THEN 1 + FloorLog2(n, 2 * d)
    ELSE IF n < d THEN FloorLog2(2 * n, d) - 1
    ELSE 0

\* The double that is the integer n.
FloatOfInt(n) == [num |-> n, den |-> 1, err |-> 0, scale |-> 0]

\* The double s / d for an integer s and a length d.
FloatDiv(s, d) ==
    CHOOSE r \in
        {IF q.den # 3
         THEN [num |-> q.num, den |-> q.den, err |-> 0, scale |-> 0]
         ELSE LET n == Abs(q.num)
                  scale == FRACTION_BITS - FloorLog2(n, 3)
                  t == ((n % 3) * (IF scale % 2 = 0 THEN 1 ELSE 2)) % 3
              IN  [num |-> q.num, den |-> 3,
                   err |-> Sign(q.num) * (IF t = 1 THEN -1 ELSE 1),
                   scale |-> scale] :
         q \in {[num |-> Sign(s) * (Abs(s) \div Gcd(Abs(s), d)),
                 den |-> d \div Gcd(Abs(s), d)]}} : TRUE

\* The double x + k for an integer k: exact unless the sum lies in a higher
\* binade than x, where the last scale - scale2 bits are rounded away.
FloatAddInt(x, k) ==
    CHOOSE r \in
        {IF x.err = 0
         THEN [num |-> m, den |-> x.den, err |-> 0, scale |-> 0]
         ELSE LET scale2 == FRACTION_BITS - FloorLog2(Abs(m), 3)
              IN  IF scale2 >= x.scale
                  THEN [num |-> m, den |-> 3, err |-> x.err, scale |-> x.scale]
                  ELSE LET g == x.scale - scale2
                           em == Sign(m) * x.err
                           \* the low g + 1 bits of the significand
                           low == CHOOSE b \in 0 .. Pow2(g + 1) - 1 :
                                      (3 * b - em) % Pow2(g + 1) = 0
                           rho == low % Pow2(g)
                           up == \/ rho > Pow2(g - 1)
                                 \/ rho = Pow2(g - 1) /\ low >= Pow2(g)
                           adj == IF up THEN Pow2(g) - rho ELSE 0 - rho
                       IN  [num |-> m, den |-> 3,
                            err |-> Sign(m) * (em + 3 * adj),
                            scale |-> x.scale] :
         m \in {x.num + k * x.den}} : TRUE

\* x < y on doubles.
FloatLess(x, y) ==
    IF x.num * y.den # y.num * x.den
    THEN x.num * y.den < y.num * x.den
    ELSE IF x.err = 0 \/ y.err = 0
    THEN x.err < y.err
    ELSE LET low == Min(x.scale, y.scale)
         IN  x.err * Pow2(y.scale - low) < y.err * Pow2(x.scale - low)

RECURSIVE Sum(_)
Sum(q) == IF q = <<>> THEN 0 ELSE Head(q) + Sum(Tail(q))

\* accuracies[-3:] and accuracies[:-3].
LastThree(accuracies) ==
    SubSeq(accuracies, Max(1, Len(accuracies) - 2), Len(accuracies))
AllButLastThree(accuracies) == SubSeq(accuracies, 1, Len(accuracies) - 3)

\* get_word_statistics, lines 165-179.
improvement_trend(accuracies) ==
    IF Len(accuracies) < 2 THEN "insufficient_data"
    ELSE IF Len(accuracies) >= 3
    THEN CHOOSE r \in
             {IF FloatLess(FloatAddInt(earlier_avg, 5), recent_avg)
              THEN "improving"
              ELSE IF FloatLess(recent_avg, FloatAddInt(earlier_avg, -5))
              THEN "declining"
              ELSE "stable" :
              recent_avg \in {FloatDiv(Sum(LastThree(accuracies)), 3)},
              earlier_avg \in
                  {IF Len(accuracies) > 3
                   THEN FloatDiv(Sum(AllButLastThree(accuracies)),
                                 Len(accuracies) - 3)
                   ELSE FloatOfInt(accuracies[1])}} : TRUE
    ELSE "stable"

\* get_word_statistics; average_accuracy, round(average, 1), is in tenths.
get_word_statistics(self, word_key) ==
    IF word_key \notin DOMAIN self.word_attempts
    THEN [total_attempts |-> 0,
          best_accuracy |-> 0,
          last_accuracy |-> 0,
          average_accuracy |-> 0,
          improvement_trend |-> "none"]
    ELSE LET word_data == self.word_attempts[word_key]
             accuracies == word_data.accuracies
         IN  [total_attempts |-> Len(accuracies),
              best_accuracy |-> word_data.best_accuracy,
              last_accuracy |-> word_data.last_accuracy,
              average_accuracy |->
                  IF accuracies # <<>>
                  THEN RoundTenths(Sum(accuracies), Len(accuracies))
                  ELSE 0,
              improvement_trend |-> improvement_trend(accuracies),
              decreasing_streak |-> word_data.decreasing_streak]

(***************************************************************************)
(* Feedback generation (src/analysis/feedback_generator.py).               *)
(*  - A time is a whole number of seconds; None as last_failure_time is    *)
(*    NoTime, which is false in a condition like None.                     *)
(*  - A FeedbackRequest is [analysis_result, feedback_type, user_level],   *)
(*    its analysis_result [accuracy (in tenths), word_results (the word    *)
(*    of the first result), incorrect_words (their number)].               *)
(*  - What the language models answer is an input of the call:             *)
(*    [initialized, gemini, llama, winner, raises].                        *)
(***************************************************************************)
USE_LLM_FEEDBACK == TRUE

NoTime == 0

\* time.time() when the strategy is created, and the seconds between two
\* readings of the clock.
StartTime == 1000
TickSeconds == 30

\* CircuitBreaker.__init__ with its default arguments.
CircuitBreaker ==
    [failure_threshold |-> 5,
     recovery_timeout |-> 60,
     failure_count |-> 0,
     last_failure_time |-> NoTime,
     state |-> "CLOSED"]

\* Variant: the recovery time is over as soon as it is reached.
can_execute_at_timeout(self, now) ==
    IF self.state = "CLOSED"
    THEN [self |-> self, result |-> TRUE]
    ELSE IF self.state = "OPEN"
         THEN IF /\ self.last_failure_time # NoTime
                 /\ now - self.last_failure_time >= self.recovery_timeout
              THEN [self |-> [self EXCEPT !.state = "HALF_OPEN"], result |-> TRUE]
              ELSE [self |-> self, result |-> FALSE]
         ELSE IF self.state = "HALF_OPEN"
              THEN [self |-> self, result |-> TRUE]
              ELSE [self |-> self, result |-> FALSE]

\* CircuitBreaker.can_execute: the breaker after the call and the answer.
can_execute(self, now) ==
    IF self.state = "CLOSED"
    THEN [self |-> self, result |-> TRUE]
    ELSE IF self.state = "OPEN"
         THEN IF /\ self.last_failure_time # NoTime
                 /\ now - self.last_failure_time > self.recovery_timeout
              THEN [self |-> [self EXCEPT !.state = "HALF_OPEN"], result |-> TRUE]
              ELSE [self |-> self, result |-> FALSE]
         ELSE IF self.state = "HALF_OPEN"
              THEN [self |-> self, result |-> TRUE]
              ELSE [self |-> self, result |-> FALSE]

\* Variant: a success closes the breaker and keeps the count.
record_success_keep(self) == [self EXCEPT !.state = "CLOSED"]

\* CircuitBreaker.record_success.
record_success(self) == [self EXCEPT !.failure_count = 0, !.state = "CLOSED"]

\* CircuitBreaker.record_failure.
record_failure(self, now) ==
    [self EXCEPT !.failure_count = self.failure_count + 1,
                 !.last_failure_time = now,
                 !.state = IF self.failure_count + 1 >= self.failure_threshold
                           THEN "OPEN"
                           ELSE self.state]

\* LLMIntegratedFeedbackStrategy.__init__.
LLMIntegratedFeedbackStrategy ==
    [selected_llm_mode |-> "compare",
     circuit_breaker |-> CircuitBreaker,
     cache |-> EmptyDict]

\* set_llm_mode: the strategy after the call and whether ValueError is raised.
set_llm_mode(self, mode) ==
    IF mode \in {"gemini", "llama", "compare"}
    THEN [self |-> [self EXCEPT !.selected_llm_mode = mode], raised |-> FALSE]
    ELSE [self |-> self, raised |-> TRUE]

\* The band of the rule-based texts: accuracy >= 80, >= 60, below.
Band(accuracy) ==
    IF accuracy >= 800 THEN "excellent" ELSE IF accuracy >= 600 THEN "good" ELSE "keep_practicing"

\* SingleWordFeedbackStrategy.generate_feedback.
SingleWordFeedback(request) ==
    LET analysis == request.analysis_result
    IN  IF analysis.word_results = <<>>
        THEN [source |-> "SingleWordFeedbackStrategy",
              feedback |-> <<"unable">>,
              confidence_score |-> 0]
        ELSE [source |-> "SingleWordFeedbackStrategy",
              feedback |-> <<Band(analysis.accuracy), analysis.word_results>>,
              confidence_score |-> Min(analysis.accuracy, 1000)]

\* FullShlokaFeedbackStrategy.generate_feedback.
FullShlokaFeedback(request) ==
    LET analysis == request.analysis_result
    IN  [source |-> "FullShlokaFeedbackStrategy",
         feedback |-> <<Band(analysis.accuracy), analysis.accuracy, analysis.incorrect_words>>,
         confidence_score |-> Min(analysis.accuracy, 1000)]

\* _fallback_feedback.
fallback_feedback(request) ==
    IF request.feedback_type = "single_word"
    THEN SingleWordFeedback(request)
    ELSE FullShlokaFeedback(request)

\* _generate_cache_key: the four parts of the formatted key.
generate_cache_key(self, request) ==
    <<self.selected_llm_mode, request.feedback_type,
      request.analysis_result.accuracy, request.user_level>>

\* _convert_dict_to_response: the text is the one the model wrote for this
\* request's analysis; the confidence is 0.85.
convert_dict_to_response(feedback_dict, request) ==
    [source |-> feedback_dict,
     feedback |-> <<"llm", request.analysis_result>>,
     confidence_score |-> 850]

\* Lines 258-291: the feedback dictionary obtained in the selected mode
\* (<<>> for None, else <<model>>), the models called, and whether an
\* exception ended the attempt.
LLMAttempt(self, llm) ==
    IF self.selected_llm_mode = "compare" /\ USE_LLM_FEEDBACK
    THEN [feedback_dict |->
              IF llm.raises \/ llm.winner = "None"
              THEN <<>>
              ELSE IF llm.winner = "Gemini" THEN <<"gemini">> ELSE <<"llama">>,
          called |-> {"gemini", "llama"},
          raised |-> llm.raises]
    ELSE IF self.selected_llm_mode = "gemini" /\ USE_LLM_FEEDBACK
         THEN [feedback_dict |->
                   IF llm.initialized /\ llm.gemini THEN <<"gemini">> ELSE <<>>,
               called |-> IF llm.initialized THEN {"gemini"} ELSE {},
               raised |-> FALSE]
         ELSE IF self.selected_llm_mode = "llama" /\ USE_LLM_FEEDBACK
              THEN [feedback_dict |->
                        IF llm.initialized /\ llm.llama THEN <<"llama">> ELSE <<>>,
                    called |-> IF llm.initialized THEN {"llama"} ELSE {},
                    raised |-> FALSE]
              ELSE [feedback_dict |-> <<>>, called |-> {}, raised |-> FALSE]

\* Variant: the fallback answer of a failed attempt is put into the cache.
generate_feedback_cache_all(self, request, now, llm) ==
    LET allowed == can_execute(self.circuit_breaker, now)
        cache_key == generate_cache_key(self, request)
        attempt == LLMAttempt(self, llm)
    IN  IF ~allowed.result
        THEN [self |-> [self EXCEPT !.circuit_breaker = allowed.self],
              response |-> fallback_feedback(request),
              called |-> {},
              cache_read |-> FALSE]
        ELSE IF cache_key \in DOMAIN self.cache
             THEN [self |-> [self EXCEPT !.circuit_breaker = allowed.self],
                   response |-> self.cache[cache_key],
                   called |-> {},
                   cache_read |-> TRUE]
             ELSE IF ~attempt.raised /\ attempt.feedback_dict # <<>>
                  THEN [self |->
                            [self EXCEPT
                                !.cache = SetItem(self.cache, cache_key,
                                              convert_dict_to_response(
                                                  attempt.feedback_dict[1], request)),
                                !.circuit_breaker = record_success(allowed.self)],
                        response |->
                            convert_dict_to_response(attempt.feedback_dict[1], request),
                        called |-> attempt.called,
                        cache_read |-> TRUE]
                  ELSE [self |->
                            [self EXCEPT
                                !.cache = SetItem(self.cache, cache_key,
                                                  fallback_feedback(request)),
                                !.circuit_breaker = record_failure(allowed.self, now)],
                        response |-> fallback_feedback(request),
                        called |-> attempt.called,
                        cache_read |-> TRUE]

\* LLMIntegratedFeedbackStrategy.generate_feedback: the strategy after the
\* call, the response returned, the models called and whether the cache
\* was looked at.
generate_feedback(self, request, now, llm) ==
    LET allowed == can_execute(self.circuit_breaker, now)
        cache_key == generate_cache_key(self, request)
        attempt == LLMAttempt(self, llm)
    IN  IF ~allowed.result
        THEN [self |-> [self EXCEPT !.circuit_breaker = allowed.self],
              response |-> fallback_feedback(request),
              called |-> {},
              cache_read |-> FALSE]
        ELSE IF cache_key \in DOMAIN self.cache
             THEN [self |-> [self EXCEPT !.circuit_breaker = allowed.self],
                   response |-> self.cache[cache_key],
                   called |-> {},
                   cache_read |-> TRUE]
             ELSE IF ~attempt.raised /\ attempt.feedback_dict # <<>>
                  THEN [self |->
                            [self EXCEPT
                                !.cache = SetItem(self.cache, cache_key,
                                              convert_dict_to_response(
                                                  attempt.feedback_dict[1], request)),
                                !.circuit_breaker = record_success(allowed.self)],
                        response |->
                            convert_dict_to_response(attempt.feedback_dict[1], request),
                        called |-> attempt.called,
                        cache_read |-> TRUE]
                  ELSE [self |->
                            [self EXCEPT
                                !.circuit_breaker = record_failure(allowed.self, now)],
                        response |-> fallback_feedback(request),
                        called |-> attempt.called,
                        cache_read |-> TRUE]

(***************************************************************************)
(* Input sets.                                                             *)
(***************************************************************************)
\* Devanagari words: "rama" (U+0930 U+093E U+092E), "ramaa", "kama", and
\* two ten-letter words that share their first seven letters, so that
\* their similarity is 2*7/20, exactly the threshold.
rama == <<2352, 2366, 2350>>
ramaa == <<2352, 2366, 2350, 2366>>
kama == <<2325, 2366, 2350>>
kakara == <<2325, 2325, 2325, 2325, 2325, 2325, 2325, 2352, 2352, 2352>>
kakama == <<2325, 2325, 2325, 2325, 2325, 2325, 2325, 2350, 2350, 2350>>

\* Latin words, as a caller of align_words may pass them.
lat_rama == <<114, 97, 109, 97>>
lat_Rama == <<82, 97, 109, 97>>
lat_laksmana == <<108, 97, 107, 115, 109, 97, 110, 97>>
lat_namaste == <<110, 97, 109, 97, 115, 116, 101>>
lat_namasthe == <<110, 97, 109, 97, 115, 116, 104, 101>>

\* Words of the reference text and words of the utterance.
RefVocab == {rama, kakara}
SpokenVocab == {rama, ramaa, kakara, kakama}

\* Tokens passed to align_words directly; the empty string is one of them.
LatRefVocab == {<<>>, lat_rama, lat_laksmana}
LatSpokenVocab == {<<>>, lat_rama, lat_Rama}

RECURSIVE SeqsUpTo(_, _)
SeqsUpTo(S, n) ==
    IF n = 0
    THEN {<<>>}
    ELSE LET shorter == SeqsUpTo(S, n - 1)
         IN  shorter \cup {Append(q, x) : q \in {r \in shorter : Len(r) = n - 1},
                                          x \in S}

Rep(w, n) == [i \in 1 .. n |-> w]

RefSeqs == SeqsUpTo(RefVocab, MaxLen)
SpokenSeqs == SeqsUpTo(SpokenVocab, MaxLen)
LatRefSeqs == SeqsUpTo(LatRefVocab, MaxLen)
LatSpokenSeqs == SeqsUpTo(LatSpokenVocab, MaxLen)

\* Up to MaxRep repetitions of one ten-letter word as reference, spoken
\* with the first k words right and the next m words as the other
\* ten-letter word.
RepRefs == {Rep(kakara, n) : n \in 0 .. MaxRep}
RepSpoken ==
    {Rep(kakara, km[1]) \o Rep(kakama, km[2]) :
        km \in {p \in (0 .. MaxRep) \X (0 .. MaxRep) : p[1] + p[2] <= MaxRep}}

\* A text whose words are ws: separated by one blank, or wrapped in
\* whitespace, Latin letters and punctuation that the splitter removes.
RECURSIVE JoinWords(_, _, _)
JoinWords(ws, before, after) ==
    IF ws = <<>>
    THEN <<>>
    ELSE IF Len(ws) = 1
         THEN before \o ws[1] \o after
         ELSE JoinWords(SubSeq(ws, 1, Len(ws) \div 2), before, after)
                  \o JoinWords(SubSeq(ws, Len(ws) \div 2 + 1, Len(ws)), before, after)

PlainText(ws) == JoinWords(ws, <<>>, <<32>>)
NoisyText(ws) == <<9>> \o JoinWords(ws, <<120, 32>>, <<44, 32, 32>>) \o <<33>>

\* Word metadata, as the shloka record carries it: display text and SLP1.
MetaEntry == [devanagari |-> kama, slp1 |-> <<107, 65, 109, 97>>]
MetaLists(n) == {<<>>, Rep(MetaEntry, 1), Rep(MetaEntry, n)}

\* A metadata list whose entries differ from one position to the next.
MetaFor(i) == [devanagari |-> Rep(2325, i), slp1 |-> Rep(107, i)]
MetaPrefix(n) == [i \in 1 .. n |-> MetaFor(i)]

\* One-word references and utterances given to align_words: a word spoken
\* as written, and spoken with one letter inserted.
ScenarioPairs ==
    {<<<<lat_namaste>>, <<lat_namaste>>>>, <<<<lat_namaste>>, <<lat_namasthe>>>>}

\* Similarity values handed to compare_with_threshold.
Similarities ==
    {Zero, One, Ratio(1, 2), Ratio(2, 3), Ratio(7, 10), Ratio(6, 7)}
Thresholds == {<<>>, <<Ratio(1, 2)>>, <<Ratio(7, 10)>>, <<Ratio(4, 5)>>}

\* Texts given to calculate_similarity directly: "tide" and "diet" share
\* two letters in opposite orders.
lat_tide == <<116, 105, 100, 101>>
lat_diet == <<100, 105, 101, 116>>
SimilarityTexts ==
    {<<>>, rama, ramaa, kama, kakara, kakama, lat_rama, lat_Rama, lat_tide,
     lat_diet, PlainText(<<rama, kama>>)}

\* Texts given to smart_word_split directly, over a small alphabet: a blank,
\* a tab, a no-break space, the Latin letter a, a comma, the zero-width
\* joiner, two Devanagari letters and the danda.
SplitChars == {32, 9, 160, 97, 44, 8205, 2352, 2350, 2404}
SplitTexts == SeqsUpTo(SplitChars, MaxLen + 1)

\* A text of n one-letter words separated by blanks, the last 'wrong' of
\* them with another letter.
LongText(n, wrong) ==
    [i \in 1 .. 2 * n - 1 |->
        IF i % 2 = 0 THEN 32 ELSE IF i > 2 * (n - wrong) THEN 2350 ELSE 2352]

\* Practice-word lists and utterances of the single-word mode.
PracticeWord(w) == [devanagari |-> w, slp1 |-> <<120>>]
PracticeLists ==
    {<<>>} \cup {<<PracticeWord(w)>> : w \in RefVocab \cup {<<>>}}
           \cup {<<PracticeWord(rama), PracticeWord(w)>> : w \in RefVocab}
Utterances ==
    {<<>>, <<32>>} \cup SpokenVocab \cup {kama}
        \cup {<<32>> \o w \o <<10>> : w \in SpokenVocab}
        \cup {PlainText(<<rama, rama>>)}

TranscriptionResults(seqs) ==
    {[success |-> TRUE, transcription |-> <<32>> \o PlainText(ws)] : ws \in seqs}
        \cup {[success |-> FALSE, transcription |-> <<>>]}

(***************************************************************************)
(* State machine: op is the operation called, args its arguments and ret   *)
(* the value it returned.  The operations are functions of their           *)
(* arguments alone (no object field is read or written), so every call is  *)
(* taken from the initial state.                                           *)
(***************************************************************************)
NoArgs == [none |-> TRUE]

Init ==
    /\ op = "none"
    /\ args = NoArgs
    /\ ret = None
    /\ word_tracker = WordPracticeTracker
    /\ strategy = LLMIntegratedFeedbackStrategy
    /\ clock = StartTime

\* TextProcessor.align_words called directly.
AlignWords ==
    /\ op = "none"
    /\ \E pair \in (LatRefSeqs \X LatSpokenSeqs) \cup ScenarioPairs :
        \E original_words \in {pair[1]}, user_words \in {pair[2]} :
            \E data \in MetaLists(Len(original_words)) \cup {MetaPrefix(MaxLen)} :
                /\ op' = "align_words"
                /\ args' = [original_words |-> original_words,
                            user_words |-> user_words,
                            shloka_words_data |-> data]
                /\ ret' = align_words(original_words, user_words, data)
                /\ UNCHANGED <<word_tracker, strategy, clock>>

\* TextProcessor.calculate_accuracy on an aligned list.
CalculateAccuracy ==
    /\ op = "none"
    /\ \E pair \in (LatRefSeqs \X LatSpokenSeqs) \cup (RepRefs \X RepSpoken) :
        \E word_results \in {align_words(pair[1], pair[2], <<>>)} :
            /\ op' = "calculate_accuracy"
            /\ args' = [word_results |-> word_results]
            /\ ret' = calculate_accuracy(word_results)
            /\ UNCHANGED <<word_tracker, strategy, clock>>

\* TextProcessor.extract_incorrect_words on an aligned list.
ExtractIncorrectWords ==
    /\ op = "none"
    /\ \E original_words \in LatRefSeqs, user_words \in LatSpokenSeqs :
        \E word_results \in {align_words(original_words, user_words, <<>>)} :
            /\ op' = "extract_incorrect_words"
            /\ args' = [word_results |-> word_results]
            /\ ret' = extract_incorrect_words(word_results)
            /\ UNCHANGED <<word_tracker, strategy, clock>>

\* PronunciationAnalyzer.analyze_pronunciation, full-shloka mode.
AnalyzeFull(reference, user_transcription, data, practice_mode) ==
    LET original_shloka == [devanagari |-> PlainText(reference), words |-> data]
    IN  /\ op' = "analyze_pronunciation"
        /\ args' = [user_transcription |-> user_transcription,
                    original_shloka |-> original_shloka,
                    practice_mode |-> practice_mode,
                    practice_words |-> <<>>,
                    current_word_index |-> 0]
        /\ ret' = analyze_pronunciation(user_transcription, original_shloka,
                                        practice_mode, <<>>, 0)
        /\ UNCHANGED <<word_tracker, strategy, clock>>

AnalyzeFullShloka ==
    /\ op = "none"
    /\ \E reference \in RefSeqs, spoken \in SpokenSeqs :
        \/ AnalyzeFull(reference, PlainText(spoken), <<>>, "full")
        \/ AnalyzeFull(reference, NoisyText(spoken), <<>>, "full")
        \/ AnalyzeFull(reference, PlainText(spoken), Rep(MetaEntry, 1), "full")
        \/ AnalyzeFull(reference, PlainText(spoken),
                       Rep(MetaEntry, Len(reference)), "words")

\* The same on a long shloka.
AnalyzeLongShloka ==
    /\ op = "none"
    /\ \E reference \in RepRefs, spoken \in RepSpoken :
        AnalyzeFull(reference, PlainText(spoken), <<>>, "full")

\* The same on a text of MaxWords words, spoken with 0, 1 or 2 wrong words.
AnalyzeVeryLongShloka ==
    /\ op = "none"
    /\ \E wrong \in 0 .. 2 :
        LET user_transcription == LongText(MaxWords, wrong)
            original_shloka == [devanagari |-> LongText(MaxWords, 0), words |-> <<>>]
        IN  /\ op' = "analyze_pronunciation"
            /\ args' = [user_transcription |-> user_transcription,
                        original_shloka |-> original_shloka,
                        practice_mode |-> "full",
                        practice_words |-> <<>>,
                        current_word_index |-> 0]
            /\ ret' = analyze_pronunciation(user_transcription, original_shloka,
                                            "full", <<>>, 0)
            /\ UNCHANGED <<word_tracker, strategy, clock>>

\* PronunciationAnalyzer.analyze_pronunciation, word mode.
AnalyzeSingleWord ==
    /\ op = "none"
    /\ \E user_transcription \in Utterances, practice_words \in PracticeLists \ {<<>>},
       current_word_index \in 0 .. 2 :
        LET original_shloka == [devanagari |-> PlainText(<<rama, kama>>), words |-> <<>>]
        IN  /\ op' = "analyze_pronunciation"
            /\ args' = [user_transcription |-> user_transcription,
                        original_shloka |-> original_shloka,
                        practice_mode |-> "words",
                        practice_words |-> practice_words,
                        current_word_index |-> current_word_index]
            /\ ret' = analyze_pronunciation(user_transcription, original_shloka,
                                            "words", practice_words,
                                            current_word_index)
            /\ UNCHANGED <<word_tracker, strategy, clock>>

\* PronunciationAnalyzer.compare_with_threshold.
CompareWithThreshold ==
    /\ op = "none"
    /\ \E similarity \in Similarities, threshold \in Thresholds :
        /\ op' = "compare_with_threshold"
        /\ args' = [similarity |-> similarity, threshold |-> threshold]
        /\ ret' = compare_with_threshold(similarity, threshold)
        /\ UNCHANGED <<word_tracker, strategy, clock>>

\* StreamlitBackend.analyze_pronunciation.
BackendAnalyzePronunciation ==
    /\ op = "none"
    /\ \E user_result \in TranscriptionResults(SpokenSeqs),
       original_result \in TranscriptionResults(RefSeqs) :
        /\ op' = "backend_analyze_pronunciation"
        /\ args' = [user_result |-> user_result, original_result |-> original_result]
        /\ ret' = backend_analyze_pronunciation(user_result, original_result)
        /\ UNCHANGED <<word_tracker, strategy, clock>>

\* TextProcessor.calculate_similarity called directly.
CalculateSimilarity ==
    /\ op = "none"
    /\ \E text1 \in SimilarityTexts, text2 \in SimilarityTexts :
        /\ op' = "calculate_similarity"
        /\ args' = [text1 |-> text1, text2 |-> text2]
        /\ ret' = calculate_similarity(text1, text2)
        /\ UNCHANGED <<word_tracker, strategy, clock>>

\* TextProcessor.smart_word_split called directly.
SmartWordSplit ==
    /\ op = "none"
    /\ \E text \in SplitTexts :
        /\ op' = "smart_word_split"
        /\ args' = [text |-> text]
        /\ ret' = smart_word_split(text)
        /\ UNCHANGED <<word_tracker, strategy, clock>>

Next ==
    \/ SmartWordSplit
    \/ AlignWords
    \/ CalculateAccuracy
    \/ ExtractIncorrectWords
    \/ AnalyzeFullShloka
    \/ AnalyzeLongShloka
    \/ AnalyzeVeryLongShloka
    \/ AnalyzeSingleWord
    \/ CompareWithThreshold
    \/ BackendAnalyzePronunciation
    \/ CalculateSimilarity

Spec == Init /\ [][Next]_vars

(***************************************************************************)
(* State machine of the tracker: word_tracker holds the fields of the      *)
(* session's WordPracticeTracker; op, args and ret are the last method     *)
(* called on it, its arguments and the value it returned.                  *)
(*                                                                         *)
(* TrackerSpec: two word keys share the tracker; MaxAttempts bounds the    *)
(* attempts recorded since the last reset.  SessionSpec: one word key is   *)
(* practised up to MaxSession times.                                       *)
(***************************************************************************)
MaxAttempts == 5
MaxSession == 6
MaxPolicy == 7

WordKeys == {"rama", "kama"}
SessionKeys == {"rama"}

\* Accuracies the caller records; -5 is outside the range 0 .. 100.
Accuracies == {-5, 30, 40, 50}
SessionAccuracies == {30, 45, 50, 60, 80}

\* The number of entries of all 'attempts' lists.
RECURSIVE CountAttempts(_, _)
CountAttempts(d, keys) ==
    IF keys = {} THEN 0
    ELSE LET k == CHOOSE x \in keys : TRUE
         IN  Len(d[k].attempts) + CountAttempts(d, keys \ {k})

TotalAttempts(self) == CountAttempts(self.word_attempts, DOMAIN self.word_attempts)

TrackerInit ==
    /\ op = "__init__"
    /\ args = NoArgs
    /\ ret = None
    /\ word_tracker = WordPracticeTracker
    /\ strategy = LLMIntegratedFeedbackStrategy
    /\ clock = StartTime

Record(keys, accuracies, limit) ==
    /\ TotalAttempts(word_tracker) < limit
    /\ \E word_key \in keys, accuracy \in accuracies :
        /\ op' = "record_word_attempt"
        /\ args' = [word_key |-> word_key, accuracy |-> accuracy,
                    user_transcription |-> <<>>]
        /\ ret' = None
        /\ word_tracker' = record_word_attempt(word_tracker, word_key, accuracy, <<>>)
        /\ UNCHANGED <<strategy, clock>>

ShouldSuggest(keys) ==
    \E word_key \in keys :
        /\ op' = "should_suggest_alphabet_practice"
        /\ args' = [word_key |-> word_key]
        /\ ret' = should_suggest_alphabet_practice(word_tracker, word_key)
        /\ UNCHANGED <<word_tracker, strategy, clock>>

SuggestionMessage(keys) ==
    \E word_key \in keys :
        /\ op' = "get_suggestion_message"
        /\ args' = [word_key |-> word_key, word_text |-> rama]
        /\ ret' = get_suggestion_message(word_tracker, word_key, rama)
        /\ UNCHANGED <<word_tracker, strategy, clock>>

WordStatistics(keys) ==
    \E word_key \in keys :
        /\ op' = "get_word_statistics"
        /\ args' = [word_key |-> word_key]
        /\ ret' = get_word_statistics(word_tracker, word_key)
        /\ UNCHANGED <<word_tracker, strategy, clock>>

\* WordPracticeTracker.reset_tracker.
ResetTracker ==
    /\ op' = "reset_tracker"
    /\ args' = NoArgs
    /\ ret' = None
    /\ word_tracker' = reset_tracker(word_tracker)
    /\ UNCHANGED <<strategy, clock>>

\* The methods called with either word key.
RecordWordAttempt == Record(WordKeys, Accuracies, MaxAttempts)
ShouldSuggestAlphabetPractice == ShouldSuggest(WordKeys)
GetSuggestionMessage == SuggestionMessage(WordKeys)
GetWordStatistics == WordStatistics(WordKeys)

TrackerNext ==
    \/ RecordWordAttempt
    \/ ShouldSuggestAlphabetPractice
    \/ GetSuggestionMessage
    \/ GetWordStatistics
    \/ ResetTracker

TrackerSpec == TrackerInit /\ [][TrackerNext]_vars

\* The methods called with the one word key of a practice session.
SessionRecordWordAttempt == Record(SessionKeys, SessionAccuracies, MaxSession)
SessionShouldSuggest == ShouldSuggest(SessionKeys)
SessionGetSuggestionMessage == SuggestionMessage(SessionKeys)
SessionGetWordStatistics == WordStatistics(SessionKeys)

SessionNext ==
    \/ SessionRecordWordAttempt
    \/ SessionShouldSuggest
    \/ SessionGetSuggestionMessage
    \/ SessionGetWordStatistics
    \/ ResetTracker

SessionSpec == TrackerInit /\ [][SessionNext]_vars

\* The methods called with either word key and accuracies on both sides of
\* the low-best-accuracy mark, for up to MaxPolicy attempts in all, so that
\* a key goes on being practised after the attempt limit.
PolicyAccuracies == {-5, 30, 40}
PolicyRecordWordAttempt == Record(WordKeys, PolicyAccuracies, MaxPolicy)

PolicyNext ==
    \/ PolicyRecordWordAttempt
    \/ ShouldSuggestAlphabetPractice
    \/ GetSuggestionMessage
    \/ ResetTracker

PolicySpec == TrackerInit /\ [][PolicyNext]_vars

(***************************************************************************)
(* State machine of the feedback strategy: strategy holds the fields of    *)
(* one LLMIntegratedFeedbackStrategy, clock is time.time(); op, args and   *)
(* ret are the last method called on the strategy, its arguments and what  *)
(* it returned and did.                                                    *)
(***************************************************************************)
MaxTicks == 3

\* Requests: two single-word analyses with the same accuracy and different
\* words, and a full-shloka analysis.
AnalysisResults ==
    {[accuracy |-> 500, word_results |-> rama, incorrect_words |-> 1],
     [accuracy |-> 500, word_results |-> kama, incorrect_words |-> 1]}
FeedbackRequests ==
    {[analysis_result |-> analysis, feedback_type |-> "single_word",
      user_level |-> "beginner"] : analysis \in AnalysisResults}
    \cup {[analysis_result |->
               [accuracy |-> 900, word_results |-> rama, incorrect_words |-> 0],
           feedback_type |-> "full_shloka", user_level |-> "beginner"]}

\* What the models do during one call: whether the strategy's own
\* generator is initialized, whether each model returns a feedback, the
\* winner the comparison names among the models that did, and whether the
\* comparison raises.
LLMBehaviour(initialized, gemini, llama, winner, raises) ==
    [initialized |-> initialized, gemini |-> gemini, llama |-> llama,
     winner |-> winner, raises |-> raises]
LLMBehaviours ==
    {LLMBehaviour(TRUE, TRUE, TRUE, "Gemini", FALSE),
     LLMBehaviour(TRUE, FALSE, FALSE, "None", FALSE),
     LLMBehaviour(FALSE, TRUE, TRUE, "Gemini", FALSE),
     LLMBehaviour(TRUE, TRUE, TRUE, "Gemini", TRUE)}

LLMModes == {"gemini", "llama", "compare", "auto"}

FeedbackInit ==
    /\ op = "LLMIntegratedFeedbackStrategy"
    /\ args = NoArgs
    /\ ret = None
    /\ word_tracker = WordPracticeTracker
    /\ strategy = LLMIntegratedFeedbackStrategy
    /\ clock = StartTime

\* Time passes.
Tick ==
    /\ clock < StartTime + MaxTicks * TickSeconds
    /\ clock' = clock + TickSeconds
    /\ op' = "tick"
    /\ args' = NoArgs
    /\ ret' = None
    /\ UNCHANGED <<word_tracker, strategy>>

\* LLMIntegratedFeedbackStrategy.set_llm_mode.
SetLLMMode ==
    \E mode \in LLMModes :
        /\ op' = "set_llm_mode"
        /\ args' = [mode |-> mode]
        /\ ret' = [raised |-> set_llm_mode(strategy, mode).raised]
        /\ strategy' = set_llm_mode(strategy, mode).self
        /\ UNCHANGED <<word_tracker, clock>>

\* LLMIntegratedFeedbackStrategy.generate_feedback.
GenerateFeedback ==
    \E request \in FeedbackRequests, llm \in LLMBehaviours :
        \E result \in {generate_feedback(strategy, request, clock, llm)} :
            /\ op' = "generate_feedback"
            /\ args' = [request |-> request]
            /\ ret' = [response |-> result.response,
                       called |-> result.called,
                       cache_read |-> result.cache_read]
            /\ strategy' = result.self
            /\ UNCHANGED <<word_tracker, clock>>

FeedbackNext ==
    \/ GenerateFeedback
    \/ SetLLMMode
    \/ Tick

FeedbackSpec == FeedbackInit /\ [][FeedbackNext]_vars

(***************************************************************************)
(* Views of the state used by the properties.                              *)
(***************************************************************************)
\* A full-shloka analysis has returned (from the analyzer or the backend).
FullResult ==
    /\ op \in {"analyze_pronunciation", "backend_analyze_pronunciation"}
    /\ ret.analysis_type = "full_shloka"

SingleResult == op = "analyze_pronunciation" /\ ret.analysis_type = "single_word"

\* An aligned list has been produced, by a direct call or inside an analysis.
Aligned == op = "align_words" \/ FullResult

AlignedReference == IF op = "align_words" THEN args.original_words ELSE ret.original_words
AlignedSpoken == IF op = "align_words" THEN args.user_words ELSE ret.user_words
AlignedResults == IF op = "align_words" THEN ret ELSE ret.word_results

TokenAt(words, p) == IF p <= Len(words) THEN words[p] ELSE <<>>

\* C1: align_words returns exactly max(len(reference), len(spoken)) results,
\* for empty sequences too, and the result at list position i has index i.
C1_AlignedLength ==
    Aligned =>
        /\ Len(AlignedResults) = Max(Len(AlignedReference), Len(AlignedSpoken))
        /\ \A p \in DOMAIN AlignedResults : AlignedResults[p].index = p - 1

\* C1 witness: a direct call with an empty reference and two spoken tokens.
C1_Witness ==
    /\ op = "align_words"
    /\ args.original_words = <<>>
    /\ Len(args.user_words) = 2
    /\ Len(ret) = 2
    /\ ret[2].index = 1

Range(q) == {q[i] : i \in DOMAIN q}

\* C3: a position whose reference or spoken token is empty has similarity
\* 0.0 and is incorrect; in a full-shloka analysis every reference position
\* the utterance does not reach is incorrect, counted in total_count and
\* listed in incorrect_words.
C3_AbsentTokenIncorrect ==
    /\ Aligned =>
           \A p \in DOMAIN AlignedResults :
               (AlignedResults[p].original = <<>> \/ AlignedResults[p].user = <<>>)
                   => /\ AlignedResults[p].similarity = Zero
                      /\ ~AlignedResults[p].correct
    /\ FullResult =>
           /\ ret.total_count = Len(ret.original_words)
           /\ \A p \in (Len(ret.user_words) + 1) .. Len(ret.original_words) :
                  /\ ~ret.word_results[p].correct
                  /\ ret.word_results[p] \in Range(ret.incorrect_words)
           /\ ret.correct_count <= Len(ret.user_words)

\* C3 witness: reference of two words, only the first one spoken:
\* total_count 2, correct_count 1, accuracy 50.0, not passed.
C3_Witness ==
    /\ FullResult
    /\ Len(ret.original_words) = 2
    /\ ret.user_words = <<ret.original_words[1]>>
    /\ ret.word_results[2].user = <<>>
    /\ ret.word_results[2].similarity = Zero
    /\ ret.total_count = 2
    /\ ret.correct_count = 1
    /\ ret.accuracy = 500
    /\ ~ret.passed
    /\ ret.incorrect_words = <<ret.word_results[2]>>


\* C4 (as claimed): every per-word decision is the strict comparison
\* similarity > WORD_SIMILARITY_THRESHOLD: in align_words, in single-word
\* analysis and in compare_with_threshold called without a threshold.
C4_StrictEverywhere ==
    /\ Aligned =>
           \A p \in DOMAIN AlignedResults :
               AlignedResults[p].correct
                   <=> Gt(AlignedResults[p].similarity, WORD_SIMILARITY_THRESHOLD)
    /\ SingleResult =>
           (ret.passed
               <=> Gt(ret.word_results[1].similarity, WORD_SIMILARITY_THRESHOLD))
    /\ (op = "compare_with_threshold" /\ args.threshold = <<>>) =>
           (ret.passed <=> Gt(args.similarity, WORD_SIMILARITY_THRESHOLD))

\* C5: total_count is the number of positions with a reference word,
\* correct_count the number of those that are correct, and spoken words
\* past the end of the reference change neither of them nor the accuracy:
\* the analysis of the utterance cut to the reference length has the same
\* three values.
C5_TrailingSpokenIgnored ==
    FullResult =>
        LET n == Len(ret.original_words)
            kept == SubSeq(ret.user_words, 1, Min(n, Len(ret.user_words)))
            cut == analyze_full_shloka(
                       PlainText(kept),
                       [devanagari |-> PlainText(ret.original_words), words |-> <<>>])
        IN  /\ ret.total_count =
                   Cardinality({p \in DOMAIN ret.word_results :
                                   ret.word_results[p].original # <<>>})
            /\ ret.total_count = n
            /\ ret.correct_count =
                   Cardinality({p \in 1 .. n : ret.word_results[p].correct})
            /\ cut.user_words = kept
            /\ ret.total_count = cut.total_count
            /\ ret.correct_count = cut.correct_count
            /\ ret.accuracy = cut.accuracy

\* C5 witness: three reference words, five spoken, two of three correct.
C5_Witness ==
    /\ FullResult
    /\ Len(ret.original_words) = 3
    /\ Len(ret.user_words) = 5
    /\ Len(ret.word_results) = 5
    /\ ret.total_count = 3
    /\ ret.correct_count = 2
    /\ ret.accuracy = 667

\* C6: calculate_accuracy returns correct / total * 100 rounded to one
\* decimal (the tenth nearest to the quotient) when some position has a
\* reference word, 0.0 when the list is empty or no position has one, and
\* always a value in [0, 100].
C6_AccuracyRounded ==
    (op = "calculate_accuracy" \/ FullResult) =>
        LET word_results ==
                IF op = "calculate_accuracy" THEN args.word_results ELSE ret.word_results
            accuracy == IF op = "calculate_accuracy" THEN ret ELSE ret.accuracy
            total == Cardinality({p \in DOMAIN word_results :
                                     word_results[p].original # <<>>})
            correct == Cardinality({p \in DOMAIN word_results :
                                       /\ word_results[p].original # <<>>
                                       /\ word_results[p].correct})
        IN  /\ total > 0 => 2 * Abs(accuracy * total - 1000 * correct) <= total
            /\ total = 0 => accuracy = 0
            /\ accuracy >= 0
            /\ accuracy <= 1000

\* C6 witness: a non-empty aligned list without any reference word.
C6_Witness ==
    /\ op = "calculate_accuracy"
    /\ args.word_results # <<>>
    /\ \A p \in DOMAIN args.word_results : args.word_results[p].original = <<>>
    /\ \E p \in DOMAIN args.word_results : args.word_results[p].user # <<>>
    /\ ret = 0

\* C7: a full-shloka analysis is passed iff accuracy >= PASSING_ACCURACY:
\* 7 correct words of 10 give accuracy 70.0 and passed, while a word whose
\* similarity is exactly 0.7 is not correct.
C7_PassingInclusive ==
    FullResult =>
        /\ ret.passed <=> ret.accuracy >= PASSING_ACCURACY
        /\ (ret.total_count = 10 /\ ret.correct_count = 7)
               => (ret.accuracy = 700 /\ ret.passed)
        /\ \A p \in DOMAIN ret.word_results :
               ret.word_results[p].similarity = Ratio(7, 10)
                   => ~ret.word_results[p].correct

\* C7 witness: ten reference words, seven spoken right and three with
\* similarity exactly 0.7: accuracy 70.0, passed.
C7_Witness ==
    /\ FullResult
    /\ ret.total_count = 10
    /\ ret.correct_count = 7
    /\ ret.accuracy = PASSING_ACCURACY
    /\ ret.passed
    /\ Len(ret.incorrect_words) = 3
    /\ \A k \in DOMAIN ret.incorrect_words :
           ret.incorrect_words[k].similarity = WORD_SIMILARITY_THRESHOLD

\* C8: incorrect_words is the subsequence of word_results, in index order,
\* of the entries that have a reference word and are not correct.
C8_IncorrectSubsequence ==
    (op = "extract_incorrect_words" \/ FullResult) =>
        LET word_results ==
                IF op = "extract_incorrect_words"
                THEN args.word_results
                ELSE ret.word_results
            incorrect_words ==
                IF op = "extract_incorrect_words" THEN ret ELSE ret.incorrect_words
        IN  /\ \A k \in DOMAIN incorrect_words :
                   /\ incorrect_words[k] \in Range(word_results)
                   /\ incorrect_words[k].original # <<>>
                   /\ ~incorrect_words[k].correct
            /\ \A k, l \in DOMAIN incorrect_words :
                   k < l => incorrect_words[k].index < incorrect_words[l].index
            /\ \A p \in DOMAIN word_results :
                   (word_results[p].original # <<>> /\ ~word_results[p].correct)
                       => word_results[p] \in Range(incorrect_words)

\* C8 witness: an incorrect reference word followed by a spoken-only
\* position, which is left out.
C8_Witness ==
    /\ op = "extract_incorrect_words"
    /\ Len(args.word_results) = 2
    /\ args.word_results[1].original # <<>>
    /\ args.word_results[1].user # <<>>
    /\ args.word_results[2].original = <<>>
    /\ args.word_results[2].user # <<>>
    /\ ~args.word_results[2].correct
    /\ ret = <<args.word_results[1]>>

\* C9: an utterance whose words are the reference words, one or more,
\* gets accuracy 100.0, no incorrect words, correct_count = total_count =
\* len(reference) and passed.
C9_IdenticalIsPerfect ==
    (FullResult /\ ret.user_words = ret.original_words /\ ret.original_words # <<>>) =>
        /\ ret.accuracy = 1000
        /\ ret.incorrect_words = <<>>
        /\ ret.correct_count = Len(ret.original_words)
        /\ ret.total_count = Len(ret.original_words)
        /\ ret.passed

\* C9 witness: two different reference words, both spoken as written.
C9_Witness ==
    /\ FullResult
    /\ Len(ret.original_words) = 2
    /\ ret.original_words[1] # ret.original_words[2]
    /\ ret.user_words = ret.original_words
    /\ ret.accuracy = 1000
    /\ ret.passed

\* The similarity a single-word analysis works on: the target word against
\* the whole utterance, stripped.
SingleSimilarity ==
    calculate_similarity(args.practice_words[args.current_word_index + 1].devanagari,
                         Strip(args.user_transcription))

HasHistory(k) == k \in DOMAIN word_tracker.word_attempts
Entry(k) == word_tracker.word_attempts[k]
AttemptCount(k) == IF HasHistory(k) THEN Len(Entry(k).attempts) ELSE 0
Recorded == op = "record_word_attempt"

\* C11: after the first record_word_attempt(key, accuracy) for a key with
\* no history, the key's history holds exactly one attempt, the decreasing
\* streak is 0 and both best_accuracy and last_accuracy equal the accuracy,
\* whatever the accuracy (out-of-range values included).
C11_FirstAttempt ==
    (Recorded /\ AttemptCount(args.word_key) = 1) =>
        LET word_data == Entry(args.word_key)
        IN  /\ word_data.accuracies = <<args.accuracy>>
            /\ word_data.decreasing_streak = 0
            /\ word_data.best_accuracy = args.accuracy
            /\ word_data.last_accuracy = args.accuracy

\* C12: a record_word_attempt for a key that has history appends the
\* attempt, makes the streak old streak + 1 if the accuracy is below the
\* previous last_accuracy and 0 otherwise, makes last_accuracy the accuracy
\* and best_accuracy the larger of the old best_accuracy and the accuracy.
C12_SubsequentAttempt ==
    [][(op' = "record_word_attempt" /\ HasHistory(args'.word_key)) =>
        LET old == word_tracker.word_attempts[args'.word_key]
            new == word_tracker'.word_attempts[args'.word_key]
            accuracy == args'.accuracy
        IN  /\ new.accuracies = Append(old.accuracies, accuracy)
            /\ Len(new.attempts) = Len(old.attempts) + 1
            /\ new.transcriptions =
                   Append(old.transcriptions, args'.user_transcription)
            /\ new.decreasing_streak =
                   IF accuracy < old.last_accuracy
                   THEN old.decreasing_streak + 1
                   ELSE 0
            /\ new.last_accuracy = accuracy
            /\ new.best_accuracy = Max(old.best_accuracy, accuracy)]_vars

\* A third attempt that repeats the accuracy of the second, which was a
\* decrease: the streak is back to 0.
C12_Witness ==
    /\ Recorded
    /\ AttemptCount(args.word_key) = 3
    /\ LET word_data == Entry(args.word_key)
       IN  /\ word_data.accuracies[2] < word_data.accuracies[1]
           /\ word_data.accuracies[3] = word_data.accuracies[2]
           /\ word_data.decreasing_streak = 0
           /\ word_data.best_accuracy = word_data.accuracies[1]

\* C13: should_suggest_alphabet_practice(key) is true iff the key has
\* history and attempts >= 5, or the streak >= 5, or attempts >= 3 and
\* best_accuracy < 40; it is false for a key never attempted.
C13_SuggestionPolicy ==
    /\ \A k \in WordKeys :
        should_suggest_alphabet_practice(word_tracker, k) <=>
            /\ HasHistory(k)
            /\ \/ AttemptCount(k) >= 5
               \/ Entry(k).decreasing_streak >= 5
               \/ AttemptCount(k) >= 3 /\ Entry(k).best_accuracy < 40
    /\ op = "should_suggest_alphabet_practice" =>
        /\ ret = should_suggest_alphabet_practice(word_tracker, args.word_key)
        /\ ~HasHistory(args.word_key) => ret = FALSE

\* Five attempts with a best accuracy of 50: suggested by the attempt count
\* alone, while the other key has no history and gets no suggestion.
C13_Witness ==
    /\ op = "should_suggest_alphabet_practice"
    /\ ret = TRUE
    /\ AttemptCount(args.word_key) = 5
    /\ Entry(args.word_key).best_accuracy = 50
    /\ Entry(args.word_key).decreasing_streak = 0
    /\ \E k \in WordKeys : ~should_suggest_alphabet_practice(word_tracker, k)

\* q is strictly decreasing.
StrictlyDecreasing(q) == \A i \in 1 .. Len(q) - 1 : q[i + 1] < q[i]

\* C14: after n strictly decreasing accuracies recorded for a fresh key the
\* streak is n - 1; the suggestion is made from the 5th attempt on, and not
\* after attempts 1 to 4 when every accuracy is at least 40.
C14_DecreasingRun ==
    \A k \in WordKeys :
        (HasHistory(k) /\ StrictlyDecreasing(Entry(k).accuracies)) =>
            /\ Entry(k).decreasing_streak = AttemptCount(k) - 1
            /\ AttemptCount(k) >= 5 =>
                   should_suggest_alphabet_practice(word_tracker, k)
            /\ (/\ AttemptCount(k) <= 4
                /\ \A i \in 1 .. AttemptCount(k) : Entry(k).accuracies[i] >= 40) =>
                   ~should_suggest_alphabet_practice(word_tracker, k)

\* C15: get_word_statistics reports the trend insufficient_data for a key
\* with fewer than 2 attempts, a key never attempted included.
C15_InsufficientData ==
    (op = "get_word_statistics" /\ AttemptCount(args.word_key) < 2) =>
        ret.improvement_trend = "insufficient_data"

\* The trend as a function of the two means: the sum of the last three
\* accuracies over 3 against the sum of the n earlier ones over n (the first
\* accuracy, n = 1, when there are exactly three).
TrendOfMeans(accuracies) ==
    IF Len(accuracies) < 2 THEN "insufficient_data"
    ELSE IF Len(accuracies) >= 3
    THEN LET recent == Sum(LastThree(accuracies))
             n == IF Len(accuracies) > 3 THEN Len(accuracies) - 3 ELSE 1
             earlier == IF Len(accuracies) > 3
                        THEN Sum(AllButLastThree(accuracies))
                        ELSE accuracies[1]
         IN  IF recent * n > 3 * earlier + 15 * n THEN "improving"
             ELSE IF recent * n < 3 * earlier - 15 * n THEN "declining"
             ELSE "stable"
    ELSE "stable"

\* C16: with at least 3 attempts the trend is improving iff the mean of the
\* last 3 accuracies exceeds the mean of the earlier ones (the first
\* accuracy when there are exactly 3) by more than 5, declining iff it is
\* lower by more than 5, and stable otherwise (a difference of exactly 5
\* included); with exactly 2 attempts it is stable.
C16_TrendOfMeans ==
    (op = "get_word_statistics" /\ AttemptCount(args.word_key) >= 2) =>
        ret.improvement_trend = TrendOfMeans(Entry(args.word_key).accuracies)

Queries ==
    {"should_suggest_alphabet_practice", "get_word_statistics",
     "get_suggestion_message"}

\* C17: record_word_attempt(k, ...) leaves the entry of every other key as
\* it was (and creates none), and the three queries leave the whole tracker
\* as it was: a query of an unknown key creates no entry.
C17_PerKeyState ==
    [][/\ op' = "record_word_attempt" =>
           \A k \in WordKeys \ {args'.word_key} :
               /\ k \in DOMAIN word_tracker'.word_attempts <=> HasHistory(k)
               /\ HasHistory(k) => word_tracker'.word_attempts[k] = Entry(k)
       /\ op' \in Queries => word_tracker' = word_tracker]_vars

\* An attempt recorded for one key while the other key has a history of
\* two attempts with a streak of 1.
C17_Witness ==
    /\ Recorded
    /\ \E k \in WordKeys \ {args.word_key} :
        /\ AttemptCount(k) = 2
        /\ Entry(k).decreasing_streak = 1
        /\ Entry(k).last_accuracy # args.accuracy
        /\ Entry(k).best_accuracy # Entry(args.word_key).best_accuracy

\* C18: only reset_tracker removes history and only record_word_attempt
\* extends it: a step other than a reset never lowers a key's attempt
\* count, a step other than a record never raises it, after reset_tracker
\* no key has history (no suggestion, total_attempts 0), and an attempt
\* recorded next starts a history of one attempt.
C18_HistoryLifetime ==
    [][/\ op' # "reset_tracker" =>
           \A k \in WordKeys :
               get_word_statistics(word_tracker', k).total_attempts >= AttemptCount(k)
       /\ op' # "record_word_attempt" =>
           \A k \in WordKeys :
               get_word_statistics(word_tracker', k).total_attempts <= AttemptCount(k)
       /\ op' = "reset_tracker" =>
           \A k \in WordKeys :
               /\ k \notin DOMAIN word_tracker'.word_attempts
               /\ ~should_suggest_alphabet_practice(word_tracker', k)
               /\ get_word_statistics(word_tracker', k).total_attempts = 0
       /\ (op = "reset_tracker" /\ op' = "record_word_attempt") =>
           word_tracker'.word_attempts[args'.word_key].accuracies =
               <<args'.accuracy>>]_vars

\* The tracker just after reset_tracker.
C18_Witness ==
    /\ op = "reset_tracker"
    /\ \A k \in WordKeys :
        /\ ~HasHistory(k)
        /\ ~should_suggest_alphabet_practice(word_tracker, k)
        /\ get_word_statistics(word_tracker, k).total_attempts = 0

\* C19: calculate_similarity(a, a) is 1.0 for a non-empty a, the result is
\* 0.0 when either argument is empty (both included), and every result lies
\* in [0, 1].
C19_SimilarityBounds ==
    op = "calculate_similarity" =>
        /\ (args.text1 = args.text2 /\ args.text1 # <<>>) => ret = One
        /\ (args.text1 = <<>> \/ args.text2 = <<>>) => ret = Zero
        /\ Ge(ret, Zero) /\ Ge(One, ret)

\* "Rama" compared with itself.
C19_Witness ==
    /\ op = "calculate_similarity"
    /\ args.text1 = lat_Rama
    /\ args.text2 = lat_Rama
    /\ ret = One

\* C20: calculate_similarity(a, b) = calculate_similarity(b, a) for all
\* strings a and b.
C20_Symmetric ==
    op = "calculate_similarity" =>
        ret = calculate_similarity(args.text2, args.text1)

(***************************************************************************)
(* C21.  align_words on the reference word "namaste" spoken as "namasthe". *)
(***************************************************************************)
NamasteCall ==
    /\ op = "align_words"
    /\ args.original_words = <<lat_namaste>>
    /\ args.user_words = <<lat_namasthe>>

\* C21 as stated: for the reference token "namaste" and the spoken token
\* "namasthe" the similarity 2*M/T is 15/16 and the word is marked correct.
C21_SimilarityFifteenSixteenths ==
    NamasteCall =>
        /\ ret[1].similarity = Ratio(15, 16)
        /\ ret[1].correct

\* C21, amended: for the reference token "namaste" and the spoken token
\* "namasthe" the matched blocks hold M = 7 of the T = 15 letters, so the
\* similarity 2*M/T is 14/15, and the word is marked correct because the
\* similarity exceeds the threshold 0.7.
C21_SimilarityFourteenFifteenths ==
    NamasteCall =>
        /\ Len(ret) = 1
        /\ ret[1].similarity = Ratio(14, 15)
        /\ Gt(ret[1].similarity, WORD_SIMILARITY_THRESHOLD)
        /\ ret[1].correct

C21_Witness ==
    /\ NamasteCall
    /\ ret[1].original = lat_namaste
    /\ ret[1].user = lat_namasthe
    /\ ret[1].correct

(***************************************************************************)
(* C22.  smart_word_split on any text.                                     *)
(***************************************************************************)
RECURSIVE Flatten(_)
Flatten(words) == IF words = <<>> THEN <<>> ELSE Head(words) \o Flatten(Tail(words))

\* C22: smart_word_split returns a sequence for every text; a text without
\* a character of U+0900..U+097F (the empty text is one) gives the empty
\* sequence; every token returned is non-empty, has no whitespace and only
\* characters of U+0900..U+097F; and the tokens, read one after the other,
\* are the Devanagari characters of the text in their order.
C22_SplitSafe ==
    op = "smart_word_split" =>
        /\ ret \in Seq(Seq(Nat))
        /\ (\A i \in DOMAIN args.text : ~IsDevanagari(args.text[i])) => ret = <<>>
        /\ \A k \in DOMAIN ret :
              /\ ret[k] # <<>>
              /\ \A i \in DOMAIN ret[k] :
                    ~IsSpace(ret[k][i]) /\ IsDevanagari(ret[k][i])
        /\ Flatten(ret) = SelectSeq(args.text, IsDevanagari)

C22_Witness ==
    /\ op = "smart_word_split"
    /\ args.text = <<2352, 97, 2350>>
    /\ ret = <<<<2352>>, <<2350>>>>

(***************************************************************************)
(* C23.  best_accuracy as a running maximum.                               *)
(***************************************************************************)
RECURSIVE MaxOf(_)
MaxOf(q) == IF Len(q) = 1 THEN q[1] ELSE Max(Head(q), MaxOf(Tail(q)))

\* C23: for every key with history, best_accuracy is the largest of the
\* accuracies recorded for the key since the last reset, and so it is at
\* least last_accuracy.
C23_RunningMax ==
    \A k \in WordKeys :
        HasHistory(k) =>
            /\ Entry(k).best_accuracy = MaxOf(Entry(k).accuracies)
            /\ Entry(k).best_accuracy >= Entry(k).last_accuracy

(***************************************************************************)
(* C24.  Word metadata in align_words.                                     *)
(***************************************************************************)
\* C24: align_words returns a result whatever the metadata list is
\* (absent or empty, shorter than the aligned sequence, or covering it); a
\* position past the end of the list shows its reference token and an
\* empty transliteration, and a position inside the list takes both
\* fields from the entry at that position.
C24_MetadataOptional ==
    op = "align_words" =>
        /\ Len(ret) = Max(Len(args.original_words), Len(args.user_words))
        /\ \A p \in DOMAIN ret :
              IF p > Len(args.shloka_words_data)
              THEN /\ ret[p].devanagari = TokenAt(args.original_words, p)
                   /\ ret[p].slp1 = <<>>
              ELSE /\ ret[p].devanagari = args.shloka_words_data[p].devanagari
                   /\ ret[p].slp1 = args.shloka_words_data[p].slp1

C24_Witness ==
    /\ op = "align_words"
    /\ Len(args.shloka_words_data) = 1
    /\ Len(ret) = 2
    /\ ret[1].slp1 = args.shloka_words_data[1].slp1
    /\ ret[2].original # <<>>
    /\ ret[2].devanagari = ret[2].original
    /\ ret[2].slp1 = <<>>

(***************************************************************************)
(* C25.  The counts of a full-shloka result.                               *)
(***************************************************************************)
\* The counts add up: the positions with a reference word are the correct
\* ones and the incorrect_words.
CountsPartition ==
    /\ ret.correct_count + Len(ret.incorrect_words) = ret.total_count
    /\ 0 <= ret.correct_count
    /\ ret.correct_count <= ret.total_count
    /\ ret.total_count <= Len(ret.word_results)
    /\ ret.total_count =
           Cardinality({p \in DOMAIN ret.word_results : ret.word_results[p].original # <<>>})
    /\ \A k \in DOMAIN ret.incorrect_words : ret.incorrect_words[k].original # <<>>

\* C25 as stated: in every full-shloka result the counts add up, and the
\* accuracy is 100.0 exactly when incorrect_words is empty and total_count
\* is positive.
C25_PerfectIffNoIncorrect ==
    FullResult =>
        /\ CountsPartition
        /\ ret.accuracy = 1000 <=> (ret.incorrect_words = <<>> /\ ret.total_count > 0)

\* C25, amended: in every full-shloka result the counts add up; the
\* accuracy is 100.0 whenever incorrect_words is empty and total_count is
\* positive; and an accuracy of 100.0 means that total_count is positive
\* and that at most one reference word in 2000 is incorrect (the percentage
\* is rounded to one decimal), so with fewer than 2000 reference words
\* incorrect_words is empty.
C25_PerfectWithinRounding ==
    FullResult =>
        /\ CountsPartition
        /\ (ret.incorrect_words = <<>> /\ ret.total_count > 0) => ret.accuracy = 1000
        /\ ret.accuracy = 1000 =>
              /\ ret.total_count > 0
              /\ 2000 * Len(ret.incorrect_words) <= ret.total_count
        /\ (ret.accuracy = 1000 /\ ret.total_count < 2000) => ret.incorrect_words = <<>>

C25_Witness ==
    /\ FullResult
    /\ ret.accuracy = 1000
    /\ Len(ret.incorrect_words) = 1
    /\ ret.correct_count + 1 = ret.total_count

(***************************************************************************)
(* C26.  The decreasing streak and the number of attempts.                 *)
(***************************************************************************)
NonNegativeHistory(k) ==
    HasHistory(k) /\ \A i \in DOMAIN Entry(k).accuracies : Entry(k).accuracies[i] >= 0

\* C26: for a key whose recorded accuracies are all non-negative the
\* decreasing streak is at most attempts - 1; so, with both limits 5, the
\* streak is below its limit while the attempt count is below its own, and
\* whenever should_suggest_alphabet_practice answers True for such a key,
\* the attempt-count rule or the low-best-accuracy rule holds as well.
C26_StreakBelowAttempts ==
    /\ \A k \in WordKeys :
          NonNegativeHistory(k) =>
              /\ Entry(k).decreasing_streak <= AttemptCount(k) - 1
              /\ AttemptCount(k) < word_tracker.max_attempts_before_suggestion
                    => Entry(k).decreasing_streak < word_tracker.decreasing_accuracy_threshold
    /\ (/\ op = "should_suggest_alphabet_practice"
        /\ ret = TRUE
        /\ NonNegativeHistory(args.word_key))
          => \/ AttemptCount(args.word_key) >= MAX_ATTEMPTS_BEFORE_SUGGESTION
             \/ /\ AttemptCount(args.word_key) >= MINIMUM_ATTEMPTS_FOR_SUGGESTION
                /\ Entry(args.word_key).best_accuracy < LOW_BEST_ACCURACY

\* C26 witness: 50, 40, 30 recorded for one key: a streak of 2 after 3
\* attempts, and no suggestion.
C26_Witness ==
    /\ op = "should_suggest_alphabet_practice"
    /\ args.word_key = "rama"
    /\ ret = FALSE
    /\ HasHistory("rama")
    /\ Entry("rama").accuracies = <<50, 40, 30>>
    /\ Entry("rama").decreasing_streak = 2

(***************************************************************************)
(* C27.  How long a suggestion lasts.                                      *)
(***************************************************************************)
Suggested(self, k) == should_suggest_alphabet_practice(self, k)

\* A key that has reached MAX_ATTEMPTS_BEFORE_SUGGESTION attempts keeps its
\* suggestion through every step that is not reset_tracker, whichever key
\* and accuracy is recorded, and every query for it answers True;
\* reset_tracker leaves no suggestion.
LastsUntilReset ==
    /\ \A k \in WordKeys :
          (AttemptCount(k) >= MAX_ATTEMPTS_BEFORE_SUGGESTION /\ op' # "reset_tracker")
              => /\ Suggested(word_tracker', k)
                 /\ k \in DOMAIN word_tracker'.word_attempts
                 /\ Len(word_tracker'.word_attempts[k].attempts) >= AttemptCount(k)
    /\ (/\ op' = "should_suggest_alphabet_practice"
        /\ AttemptCount(args'.word_key) >= MAX_ATTEMPTS_BEFORE_SUGGESTION)
          => ret' = TRUE
    /\ op' = "reset_tracker" => \A k \in WordKeys : ~Suggested(word_tracker', k)

\* An attempt with accuracy >= 40 for a key that has fewer than 'limit'
\* attempts and a suggestion (which, below the attempt limit, comes from
\* the low-best-accuracy rule) ends the suggestion.
WithdrawnBelow(limit) ==
    (/\ op' = "record_word_attempt"
     /\ args'.accuracy >= LOW_BEST_ACCURACY
     /\ AttemptCount(args'.word_key) < limit
     /\ Suggested(word_tracker, args'.word_key))
        => ~Suggested(word_tracker', args'.word_key)

\* C27 as stated: once a key has reached MAX_ATTEMPTS_BEFORE_SUGGESTION
\* attempts its suggestion lasts until reset_tracker; below that count a
\* suggestion raised by the low-best-accuracy rule is withdrawn by a later
\* attempt with accuracy >= 40.
C27_WithdrawnByGoodAttempt ==
    [][LastsUntilReset /\ WithdrawnBelow(MAX_ATTEMPTS_BEFORE_SUGGESTION)]_vars

\* C27, amended: once a key has reached MAX_ATTEMPTS_BEFORE_SUGGESTION
\* attempts its suggestion lasts until reset_tracker; a suggestion raised
\* by the low-best-accuracy rule is withdrawn by an attempt with accuracy
\* >= 40 that leaves the count below the limit (when that attempt is the
\* one that reaches the limit, the suggestion stays).
C27_SuggestionLasts ==
    [][/\ LastsUntilReset
       /\ WithdrawnBelow(MAX_ATTEMPTS_BEFORE_SUGGESTION - 1)
       /\ (/\ op' = "record_word_attempt"
           /\ AttemptCount(args'.word_key) = MAX_ATTEMPTS_BEFORE_SUGGESTION - 1)
             => Suggested(word_tracker', args'.word_key)]_vars

\* C27 witness: five attempts of 40 for one key, attempts for the other
\* key after them, and the query for the first key still answers True.
C27_Witness ==
    /\ op = "should_suggest_alphabet_practice"
    /\ args.word_key = "rama"
    /\ ret = TRUE
    /\ HasHistory("rama")
    /\ Entry("rama").accuracies = <<40, 40, 40, 40, 40, 40>>
    /\ HasHistory("kama")
    /\ Entry("kama").accuracies = <<30>>

(***************************************************************************)
(* Views of the feedback strategy.                                         *)
(***************************************************************************)
Breaker == strategy.circuit_breaker

Generated == op' = "generate_feedback"

\* The call found its key in the cache, got a feedback from a model, or
\* failed to get one.
CacheHit ==
    /\ Generated
    /\ ret'.cache_read
    /\ generate_cache_key(strategy, args'.request) \in DOMAIN strategy.cache
LookedUpAndMissed ==
    /\ Generated
    /\ ret'.cache_read
    /\ generate_cache_key(strategy, args'.request) \notin DOMAIN strategy.cache
Succeeded == LookedUpAndMissed /\ ret'.response.source \in {"gemini", "llama"}
Failed == LookedUpAndMissed /\ ret'.response.source \notin {"gemini", "llama"}

ClosedIffBelowThreshold(breaker) ==
    /\ breaker.state \in {"CLOSED", "OPEN", "HALF_OPEN"}
    /\ breaker.state = "CLOSED" <=> breaker.failure_count < breaker.failure_threshold

(***************************************************************************)
(* C28.  The states of the circuit breaker.                                *)
(***************************************************************************)
\* C28: the breaker is CLOSED exactly when failure_count is below
\* failure_threshold (5); it leaves CLOSED only on the failure that brings
\* the count to the threshold, every failure adds one to the count, every
\* success makes it CLOSED with count 0, and a failure of a call let
\* through while not CLOSED leaves it OPEN.
C28_ClosedIffBelowThreshold ==
    [][/\ ClosedIffBelowThreshold(Breaker)
       /\ ClosedIffBelowThreshold(strategy'.circuit_breaker)
       /\ Breaker.failure_threshold = 5
       /\ (Breaker.state = "CLOSED" /\ strategy'.circuit_breaker.state # "CLOSED")
             => /\ Failed
                /\ strategy'.circuit_breaker.state = "OPEN"
                /\ Breaker.failure_count = Breaker.failure_threshold - 1
       /\ Failed => strategy'.circuit_breaker.failure_count = Breaker.failure_count + 1
       /\ Succeeded
             => /\ strategy'.circuit_breaker.state = "CLOSED"
                /\ strategy'.circuit_breaker.failure_count = 0
       /\ (Failed /\ Breaker.state # "CLOSED")
             => strategy'.circuit_breaker.state = "OPEN"
       /\ ~Failed /\ ~Succeeded
             => strategy'.circuit_breaker.failure_count = Breaker.failure_count]_vars

\* C28 witness: the call let through after the recovery time failed, and
\* the breaker is OPEN again with a sixth failure.
C28_Witness ==
    /\ op = "generate_feedback"
    /\ Breaker.state = "OPEN"
    /\ Breaker.failure_count = 6
    /\ ret.cache_read

(***************************************************************************)
(* C29.  Calls while the breaker is OPEN.                                  *)
(***************************************************************************)
\* C29: a generate_feedback call made while the breaker is OPEN and at
\* most recovery_timeout seconds after the last failure calls no model,
\* does not look at the cache, returns the rule-based feedback for its
\* request and changes nothing; a call made later than that is let
\* through: it looks at the cache, and leaves the breaker HALF_OPEN on a
\* cache hit, CLOSED on a success and OPEN on a failure.
C29_OpenRefusesUntilTimeout ==
    [][(Generated /\ Breaker.state = "OPEN")
          => IF clock - Breaker.last_failure_time <= Breaker.recovery_timeout
             THEN /\ ret'.called = {}
                  /\ ~ret'.cache_read
                  /\ ret'.response = fallback_feedback(args'.request)
                  /\ ret'.response.source \in
                        {"SingleWordFeedbackStrategy", "FullShlokaFeedbackStrategy"}
                  /\ strategy' = strategy
             ELSE /\ ret'.cache_read
                  /\ CacheHit => strategy'.circuit_breaker.state = "HALF_OPEN"
                  /\ Succeeded => strategy'.circuit_breaker.state = "CLOSED"
                  /\ Failed
                        => /\ strategy'.circuit_breaker.state = "OPEN"
                           /\ strategy'.circuit_breaker.last_failure_time = clock]_vars

\* C29 witness: a call refused exactly recovery_timeout seconds after the
\* last failure, for a request whose key is in the cache.
C29_Witness ==
    /\ op = "generate_feedback"
    /\ Breaker.state = "OPEN"
    /\ clock = Breaker.last_failure_time + Breaker.recovery_timeout
    /\ ret.called = {}
    /\ ~ret.cache_read
    /\ generate_cache_key(strategy, args.request) \in DOMAIN strategy.cache
    /\ ret.response.source = "SingleWordFeedbackStrategy"

(***************************************************************************)
(* C30.  The cache of the feedback strategy.                               *)
(***************************************************************************)
\* Every cached response was written by a model, under the key of the
\* request it was written for.
OnlyModelResponsesCached(self) ==
    \A key \in DOMAIN self.cache :
        /\ self.cache[key].source \in {"gemini", "llama"}
        /\ self.cache[key].feedback[1] = "llm"
        /\ self.cache[key].feedback[2].accuracy = key[3]

\* A cache hit returns the stored response and calls no model.
HitReturnsStored ==
    CacheHit =>
        /\ ret'.response = strategy.cache[generate_cache_key(strategy, args'.request)]
        /\ ret'.called = {}
        /\ strategy'.cache = strategy.cache

\* C30 as stated: only responses of a model are cached, and a cache hit
\* returns the stored response, calls no model and leaves the breaker's
\* state and failure count as they were.
C30_HitLeavesBreaker ==
    [][/\ OnlyModelResponsesCached(strategy')
       /\ HitReturnsStored
       /\ CacheHit
             => /\ strategy'.circuit_breaker.state = Breaker.state
                /\ strategy'.circuit_breaker.failure_count = Breaker.failure_count]_vars

\* C30, amended: only responses of a model are cached (never a fallback
\* response); a cache hit, keyed by mode, feedback type, accuracy and user
\* level, returns the stored response, whatever the words of the request,
\* calls no model and leaves the failure count and the time of the last
\* failure as they were; it leaves the breaker's state as it was, except
\* that an OPEN breaker, which lets the call through only after the
\* recovery time, becomes HALF_OPEN.
C30_HitLeavesFailureCount ==
    [][/\ OnlyModelResponsesCached(strategy')
       /\ HitReturnsStored
       /\ CacheHit
             => /\ strategy'.circuit_breaker.failure_count = Breaker.failure_count
                /\ strategy'.circuit_breaker.last_failure_time = Breaker.last_failure_time
                /\ strategy'.circuit_breaker.state =
                      IF Breaker.state = "OPEN" THEN "HALF_OPEN" ELSE Breaker.state
                /\ Breaker.state = "OPEN"
                      => clock - Breaker.last_failure_time > Breaker.recovery_timeout]_vars

\* C30 witness: a request is answered from the cache with the feedback
\* written for another word.
C30_Witness ==
    /\ op = "generate_feedback"
    /\ ret.called = {}
    /\ ret.cache_read
    /\ ret.response.source = "gemini"
    /\ ret.response.feedback[2].accuracy = args.request.analysis_result.accuracy
    /\ ret.response.feedback[2].word_results # args.request.analysis_result.word_results
    /\ Breaker.failure_count > 0

====
